---- MODULE Spec2Model ----
(***************************************************************************)
(* A model of the orchestration and post-processing scripts of the         *)
(* exaepi_cases repository:                                                 *)
(*   medical_workers/sweeps.py            SweepOrchestrator.run_sweeps      *)
(*   regtests/regtest.py                  run_baselines / run_tests         *)
(*   multidisease/scripts/plot_infections_map.py   main / process_case      *)
(*   regtests/plot_results.py             plot_case / plot_all / main,      *)
(*                                        compute_norms                     *)
(*   multidisease/sensitivity/analyze_sensitivity.py  load_ensemble,        *)
(*                                        print_metrics_table               *)
(* Each script is a state machine of its own over its own variables; a     *)
(* specification Spec<Script> runs one script and leaves the others idle.   *)
(***************************************************************************)
EXTENDS Integers, Sequences, FiniteSets, TLC

(***************************************************************************)
(* Bounds of the model.                                                     *)
(***************************************************************************)
NumDirs == 3
MaxParallel == 2
NumTestDirs == 3
NumMapCases == 2
NumPlotCases == 2
MaxDiseases == 2
MaxLen == 3
MaxVal == 1
NumSweepCases == 2
MaxRuns == 2
MaxDays == 2
MaxInfected == 1
MaxSpikes == 2
MaxDigits == 4
MaxValues == 2
MaxParams == 2
NumStatusRuns == 2
NumInvocations == 2
NumSharedDirs == 2

VARIABLES
    \* ---- sweeps.py: the filesystem, the machine configuration, run_sweeps
    fs,             \* run directory -> what is on disk for it
    batch_mode,     \* machine_config.get('batch_mode', False)
    max_parallel,   \* the --max-parallel argument of this invocation
    pc,             \* position of run_sweeps
    run_dirs,       \* sorted(study_dir.glob(pattern))
    scan_fs,        \* the filesystem as the completion scan of this invocation read it
    already_done,   \* the run directories whose already_done flag was set
    jobs_to_run,    \* list of run directories to launch
    skipped,        \* counter of completed run directories
    idx,            \* enumerate index of the launch loop (1-based)
    running_jobs,   \* list of Popen handles (named by run directory)
    widx,           \* position of "for proc in running_jobs: proc.wait()"
    completed,      \* counter of waited jobs
    procs,          \* run directory -> state of its subprocess in this invocation
    submitted,      \* run directories handed to the batch scheduler
    ret,            \* return value of run_sweeps
    \* ---- regtest.py: run_baselines / run_tests
    rt_action,      \* "run-baseline" (baselines/) or "run-test" (tests/)
    rt_root,        \* whether the baselines/ (tests/) directory exists
    rt_fs,          \* case -> what is on disk for <case>.<machine>
    rt_cases,       \* the resolved --cases filter ({} when none was given)
    rt_batch_mode,  \* machine_config.get('batch_mode', False)
    rt_pc,          \* position of run_baselines / run_tests
    test_dirs,      \* the list the loop runs over (baseline_dirs / test_dirs)
    rt_idx,         \* position of the loop in test_dirs (1-based)
    rt_procs,       \* case -> state of the subprocess launched by Popen
    rt_submitted,   \* the cases whose job script was handed to sbatch
    \* ---- scripts/plot_infections_map.py: main's loop over process_case
    cases_to_plot,  \* list of the run directories selected for plotting
    args_steps,     \* the --steps argument (given = FALSE: None)
    pm_pc,          \* position of main
    pm_idx,         \* position of the loop in cases_to_plot (1-based)
    pm_plotted,     \* positions whose process_case generated its maps
    pm_skipped,     \* positions whose process_case printed ERROR and returned
    pm_exit,        \* exit status of the process ("none" while it runs)
    \* ---- regtests/plot_results.py: main, plot_all, plot_case
    matplotlib_available,   \* MATPLOTLIB_AVAILABLE
    pr_found,       \* what find_test_directories returns (case names, sorted)
    cases_arg,      \* the cases filter of plot_all ({} when None)
    pr_pc,          \* position of main / plot_all / plot_case
    test_cases,     \* the list plot_all loops over
    pr_ci,          \* position of plot_all's loop in test_cases (1-based)
    num_diseases,   \* number of diseases of the case being plotted
    disease_idx,    \* position of plot_case's loop over output_files (1-based)
    baseline_data_list, \* loaded baseline arrays (their disease and shape)
    test_data_list, \* loaded test arrays (their disease and shape)
    error_messages, \* error messages of the case being plotted
    pr_result,      \* the success flag plot_case returned ("none" while it runs)
    success_count,  \* counter of plot_all
    failed_cases,   \* list of failed cases of plot_all
    pr_exit,        \* exit status of plot_results.py ("none" while it runs)
    pr_mismatched,  \* history: diseases of this case whose two files loaded with different shapes
    pr_good,        \* history: diseases of this case whose two files loaded with equal shapes
    pr_norms,       \* history: diseases of this case compute_norms was applied to
    pr_plotted,     \* history: positions of test_cases whose plot was saved
    pr_mismatch_cases,  \* history: positions of test_cases that had a pair of different shapes
    pr_labels,      \* history: the disease create_comparison_plot named each pair of this case by (0: no name)
    \* ---- regtests/plot_results.py: compute_norms
    baseline_values,    \* argument of compute_norms
    test_values,    \* argument of compute_norms
    norms,          \* <<>> until compute_norms returns, then <<the dict returned>>
    cn_pc,          \* "call" before compute_norms runs, then "returned" or "raised"
    \* ---- multidisease/sensitivity/analyze_sensitivity.py: main, print_metrics_table
    no_plots,       \* args.no_plots
    ens_dirs,       \* the <<sweep, case>> whose .ensemble_<case> directory exists
    sa_pc,          \* position of main
    sa_sweep,       \* the sweep main is at (1: co-immunity, 2: co-susceptibility)
    sa_di,          \* position of print_metrics_table's loop over diseases
    sa_ci,          \* position of print_metrics_table's loop over the sweep's cases
    sa_reported,    \* history: the <<sweep, disease, case>> whose table row was printed
    sa_malformed,   \* history: the <<sweep, case>> read with a malformed realization file
    sa_fallback,    \* load_ensemble returned None for an ensemble of this sweep, which the plots will look up in the mean files
    sa_nan_std,     \* history: a table row was printed from a single realization (its deviations are NaN)
    sa_raised,      \* the uncaught exception that ended the script ("none" if none)
    sa_exit,        \* exit status of the script ("none" while it runs)
    \* ---- analyze_sensitivity.py: load_ensemble and extract_metrics on the data
    em_all_data,    \* all_data of load_ensemble: the realizations loaded, in run order
    stacked,        \* the stack load_ensemble returns
    days,           \* the day column load_ensemble returns
    peak_mags,      \* local of extract_metrics at its return: peak per realization
    peak_days,      \* local of extract_metrics at its return: day of the peak per realization
    n_waves,        \* local of extract_metrics at its return: wave count per realization
    em_metrics,     \* <<>> until extract_metrics returns, then <<the dict returned>>
    em_pc,          \* "load" before load_ensemble, "loaded" after it, "extracted" at the end
    \* ---- medical_workers/plot_sweeps.py: parse_dirname
    pd_tokens,      \* the parameter tokens the directory name was put together from
    dirname,        \* argument of parse_dirname, a sequence of characters
    pd_params,      \* the dict parse_dirname built (a function from its keys)
    pd_pc,           \* "call" before parse_dirname runs, then "returned"
    \* ---- sweeps.py: create_runs
    study_config,   \* self.studies['studies'][study_name]: its parameters and whether it has a baseline
    study_known,    \* study_name in self.studies['studies']
    case_available, \* case in study_config['cases']
    common_exists,  \* whether <study>/common exists
    exec_found,     \* whether _find_executable finds the simulator during this invocation
    cr_dirs,        \* names of the run directories that exist in the study directory
    cr_scripts,     \* names of the run directories that hold their run.<machine>.sh
    combinations,   \* the list _generate_parameter_combinations returned
    cr_idx,         \* position of create_runs' loop in combinations (1-based)
    created_count,  \* counter of create_runs
    skipped_count,  \* counter of create_runs
    cr_fresh,       \* history: the study directory held no run directory when this invocation began
    cr_pc,          \* position of create_runs
    cr_ret,          \* return value of create_runs ("raised" for FileNotFoundError)
    \* ---- sweeps.py: check_status
    cs_created,     \* the run directories create_runs has made in the study directory, each for its machine
    cs_machine,     \* the machine argument of check_status
    cs_known,       \* study_name in self.studies['studies']
    cs_pc,          \* position of check_status
    cs_run_dirs,    \* run_dirs: sorted(study_dir.glob(pattern))
    cs_idx,         \* position of the loop in run_dirs (1-based)
    cs_log,         \* what the loop found as out.<machine>.log in the directory it looked at last
    cs_completed,   \* counter completed
    cs_failed,      \* counter failed
    cs_running,     \* counter running
    cs_not_started, \* counter not_started
    cs_total,       \* total, as printed
    cs_ret,          \* return value of check_status
    \* ---- sweeps.py: run_sweeps invoked from several terminals on one study directory
    cc_fs,          \* run directory -> its out.<machine>.log
    cc_max_parallel, \* invocation -> its --max-parallel
    cc_pc,          \* invocation -> position of its run_sweeps
    cc_jobs_to_run, \* invocation -> its jobs_to_run
    cc_idx,         \* invocation -> index of its launch loop (1-based)
    cc_running_jobs, \* invocation -> its running_jobs
    cc_widx,        \* invocation -> position of its "for proc in running_jobs: proc.wait()"
    cc_procs,       \* invocation -> run directory -> state of the subprocess it launched there
    cc_launched,    \* history: invocation -> run directory -> number of Popen calls
    cc_seen_running, \* history: invocation -> the run directories in which a subprocess was running, its log begun, when the invocation scanned
    \* ---- regtest.py: compare_results
    cmp_machine,    \* whether a machine was given or detected (machine is not None)
    cmp_baseline_root, \* whether baselines/ exists
    cmp_test_root,  \* whether tests/ exists
    cmp_chkdiff,    \* whether chkdiff.sh exists
    baseline_dirs,  \* sorted(baseline_dir.glob("*.<machine>")), the cases by number
    cmp_pc,         \* position of compare_results
    cmp_idx,        \* position of the loop in baseline_dirs (1-based)
    cmp_passed,     \* counter passed
    cmp_failed,     \* counter failed
    cmp_skipped,    \* counter skipped
    cmp_exit,        \* "none" while it runs, "1" after sys.exit(1), "returned" after the return
    \* ---- scripts/plot_infections_map.py: main's choice of the run directories for -c
    sel_disk,       \* the .run_* directories of the project: the parts of their names between "_", and whether they hold cases* files
    sel_platform,   \* platform = args.platform or detect_platform()
    case_spec,      \* the -c argument, as its parts between "_"
    sel_cases_to_plot, \* cases_to_plot: the (case_name, dir_platform) chosen
    sel_pc,         \* position of main
    sel_exit,        \* exit status ("none" while it runs)
    \* ---- regtest.py and sweeps.py: main
    mn_script,      \* which orchestrator's main runs: "regtest" or "sweeps"
    mn_action,      \* args.action
    mn_env,         \* the environment validate_environment inspects
    mn_study,       \* --study was given
    mn_case,        \* --case was given
    mn_machine,     \* args.machine, "current" by default
    mn_detected,    \* the auto-detected machine, "" for None
    mn_pc,          \* position in main
    mn_valid,       \* what validate_environment returned, "none" before the call
    mn_performed,   \* the orchestrator method main called, "none" before
    mn_created,     \* history: a directory has been created
    mn_launched,    \* history: a subprocess has been launched
    mn_exit         \* the exit code of the process, "none" while it runs

sweepVars == <<fs, batch_mode, max_parallel, pc, run_dirs, scan_fs, already_done,
               jobs_to_run, skipped, idx, running_jobs, widx, completed, procs,
               submitted, ret>>

regtestVars == <<rt_action, rt_root, rt_fs, rt_cases, rt_batch_mode, rt_pc, test_dirs,
                 rt_idx, rt_procs, rt_submitted>>

mapVars == <<cases_to_plot, args_steps, pm_pc, pm_idx, pm_plotted, pm_skipped, pm_exit>>

plotVars == <<matplotlib_available, pr_found, cases_arg, pr_pc, test_cases, pr_ci,
              num_diseases, disease_idx, baseline_data_list, test_data_list,
              error_messages, pr_result, success_count, failed_cases, pr_exit,
              pr_mismatched, pr_good, pr_norms, pr_plotted, pr_mismatch_cases,
              pr_labels>>

normVars == <<baseline_values, test_values, norms, cn_pc>>

sensVars == <<no_plots, ens_dirs, sa_pc, sa_sweep, sa_di, sa_ci, sa_reported,
              sa_malformed, sa_fallback, sa_nan_std, sa_raised, sa_exit>>

metricVars == <<em_all_data, stacked, days, peak_mags, peak_days, n_waves, em_metrics, em_pc>>

dirnameVars == <<pd_tokens, dirname, pd_params, pd_pc>>

createVars == <<study_config, study_known, case_available, common_exists, exec_found,
                cr_dirs, cr_scripts, combinations, cr_idx, created_count,
                skipped_count, cr_fresh, cr_pc, cr_ret>>

statusVars == <<cs_created, cs_machine, cs_known, cs_pc, cs_run_dirs, cs_idx, cs_log, cs_completed, cs_failed, cs_running, cs_not_started, cs_total, cs_ret>>

concurrentVars == <<cc_fs, cc_max_parallel, cc_pc, cc_jobs_to_run, cc_idx, cc_running_jobs, cc_widx, cc_procs, cc_launched, cc_seen_running>>

compareVars == <<cmp_machine, cmp_baseline_root, cmp_test_root, cmp_chkdiff, baseline_dirs, cmp_pc, cmp_idx, cmp_passed, cmp_failed, cmp_skipped, cmp_exit>>

selectVars == <<sel_disk, sel_platform, case_spec, sel_cases_to_plot, sel_pc, sel_exit>>

mainVars == <<mn_script, mn_action, mn_env, mn_study, mn_case, mn_machine, mn_detected, mn_pc, mn_valid, mn_performed, mn_created, mn_launched, mn_exit>>

vars == <<sweepVars,
          regtestVars,
          mapVars,
          plotVars,
          normVars,
          sensVars,
          metricVars,
          dirnameVars,
          createVars,
          statusVars,
          concurrentVars,
          compareVars,
          selectVars,
          mainVars>>

\* What a specification of one script leaves untouched.
nonSweepVars == <<regtestVars, mapVars, plotVars, normVars, sensVars, metricVars,
    dirnameVars,
    createVars,
    statusVars,
    concurrentVars,
    compareVars,
    selectVars,
    mainVars>>
nonRegtestVars == <<sweepVars, mapVars, plotVars, normVars, sensVars, metricVars,
    dirnameVars,
    createVars,
    statusVars,
    concurrentVars,
    compareVars,
    selectVars,
    mainVars>>
nonMapVars == <<sweepVars, regtestVars, plotVars, normVars, sensVars, metricVars,
    dirnameVars,
    createVars,
    statusVars,
    concurrentVars,
    compareVars,
    selectVars,
    mainVars>>
nonPlotVars == <<sweepVars, regtestVars, mapVars, normVars, sensVars, metricVars,
    dirnameVars,
    createVars,
    statusVars,
    concurrentVars,
    compareVars,
    selectVars,
    mainVars>>
nonNormVars == <<sweepVars, regtestVars, mapVars, plotVars, sensVars, metricVars,
    dirnameVars,
    createVars,
    statusVars,
    concurrentVars,
    compareVars,
    selectVars,
    mainVars>>
nonSensVars == <<sweepVars, regtestVars, mapVars, plotVars, normVars, metricVars,
    dirnameVars,
    createVars,
    statusVars,
    concurrentVars,
    compareVars,
    selectVars,
    mainVars>>
nonMetricVars == <<sweepVars, regtestVars, mapVars, plotVars, normVars, sensVars,
    dirnameVars,
    createVars,
    statusVars,
    concurrentVars,
    compareVars,
    selectVars,
    mainVars>>
nonCreateVars == <<sweepVars,
    regtestVars,
    mapVars,
    plotVars,
    normVars,
    sensVars,
    metricVars,
    dirnameVars,
    statusVars,
    concurrentVars,
    compareVars,
    selectVars,
    mainVars>>
nonDirnameVars == <<sweepVars, regtestVars, mapVars, plotVars, normVars, sensVars,
    metricVars,
    createVars,
    statusVars,
    concurrentVars,
    compareVars,
    selectVars,
    mainVars>>
nonConcurrentVars == <<sweepVars,
    regtestVars,
    mapVars,
    plotVars,
    normVars,
    sensVars,
    metricVars,
    dirnameVars,
    createVars,
    statusVars,
    compareVars,
    selectVars,
    mainVars>>
nonStatusVars == <<sweepVars,
    regtestVars,
    mapVars,
    plotVars,
    normVars,
    sensVars,
    metricVars,
    dirnameVars,
    createVars,
    concurrentVars,
    compareVars,
    selectVars,
    mainVars>>
nonSelectVars == <<sweepVars,
    regtestVars,
    mapVars,
    plotVars,
    normVars,
    sensVars,
    metricVars,
    dirnameVars,
    createVars,
    statusVars,
    concurrentVars,
    compareVars,
    mainVars>>
nonCompareVars == <<sweepVars,
    regtestVars,
    mapVars,
    plotVars,
    normVars,
    sensVars,
    metricVars,
    dirnameVars,
    createVars,
    statusVars,
    concurrentVars,
    selectVars,
    mainVars>>
nonMainVars == <<sweepVars,
    regtestVars,
    mapVars,
    plotVars,
    normVars,
    sensVars,
    metricVars,
    dirnameVars,
    createVars,
    statusVars,
    concurrentVars,
    compareVars,
    selectVars>>

(***************************************************************************)
(* The scripts that a specification does not run stay idle.                 *)
(***************************************************************************)
IdleSweeps ==
    /\ fs = <<>>
    /\ batch_mode = FALSE
    /\ max_parallel = 1
    /\ pc = "idle"
    /\ run_dirs = <<>>
    /\ scan_fs = <<>>
    /\ already_done = {}
    /\ jobs_to_run = <<>>
    /\ skipped = 0
    /\ idx = 1
    /\ running_jobs = <<>>
    /\ widx = 1
    /\ completed = 0
    /\ procs = <<>>
    /\ submitted = {}
    /\ ret = "none"

IdleRegtest ==
    /\ rt_action = "none"
    /\ rt_root = FALSE
    /\ rt_fs = <<>>
    /\ rt_cases = {}
    /\ rt_batch_mode = FALSE
    /\ rt_pc = "idle"
    /\ test_dirs = <<>>
    /\ rt_idx = 1
    /\ rt_procs = <<>>
    /\ rt_submitted = {}

IdleMap ==
    /\ cases_to_plot = <<>>
    /\ args_steps = [given |-> FALSE, steps |-> {}]
    /\ pm_pc = "idle"
    /\ pm_idx = 1
    /\ pm_plotted = {}
    /\ pm_skipped = {}
    /\ pm_exit = "none"

IdlePlot ==
    /\ matplotlib_available = FALSE
    /\ pr_found = <<>>
    /\ cases_arg = {}
    /\ pr_pc = "idle"
    /\ test_cases = <<>>
    /\ pr_ci = 1
    /\ num_diseases = 1
    /\ disease_idx = 1
    /\ baseline_data_list = <<>>
    /\ test_data_list = <<>>
    /\ error_messages = <<>>
    /\ pr_result = "none"
    /\ success_count = 0
    /\ failed_cases = <<>>
    /\ pr_exit = "none"
    /\ pr_mismatched = {}
    /\ pr_good = {}
    /\ pr_norms = {}
    /\ pr_plotted = {}
    /\ pr_mismatch_cases = {}
    /\ pr_labels = <<>>

IdleNorms ==
    /\ baseline_values = <<>>
    /\ test_values = <<>>
    /\ norms = <<>>
    /\ cn_pc = "idle"

IdleDirname ==
    /\ pd_tokens = <<>>
    /\ dirname = <<>>
    /\ pd_params = <<>>
    /\ pd_pc = "idle"

IdleMetrics ==
    /\ em_all_data = <<>>
    /\ stacked = <<>>
    /\ days = <<>>
    /\ peak_mags = <<>>
    /\ peak_days = <<>>
    /\ n_waves = <<>>
    /\ em_metrics = <<>>
    /\ em_pc = "idle"

IdleSens ==
    /\ no_plots = FALSE
    /\ ens_dirs = {}
    /\ sa_pc = "idle"
    /\ sa_sweep = 1
    /\ sa_di = 1
    /\ sa_ci = 1
    /\ sa_reported = {}
    /\ sa_malformed = {}
    /\ sa_fallback = FALSE
    /\ sa_nan_std = FALSE
    /\ sa_raised = "none"
    /\ sa_exit = "none"

IdleCreate ==
    /\ study_config = [parameters |-> <<>>, baseline |-> FALSE]
    /\ study_known = FALSE
    /\ case_available = FALSE
    /\ common_exists = FALSE
    /\ exec_found = FALSE
    /\ cr_dirs = {}
    /\ cr_scripts = {}
    /\ combinations = <<>>
    /\ cr_idx = 1
    /\ created_count = 0
    /\ skipped_count = 0
    /\ cr_fresh = FALSE
    /\ cr_pc = "idle"
    /\ cr_ret = "none"

IdleStatus ==
    /\ cs_created = {}
    /\ cs_machine = <<>>
    /\ cs_known = FALSE
    /\ cs_pc = "idle"
    /\ cs_run_dirs = <<>>
    /\ cs_idx = 1
    /\ cs_log = <<>>
    /\ cs_completed = 0
    /\ cs_failed = 0
    /\ cs_running = 0
    /\ cs_not_started = 0
    /\ cs_total = 0
    /\ cs_ret = "none"

IdleConcurrent ==
    /\ cc_fs = <<>>
    /\ cc_max_parallel = <<>>
    /\ cc_pc = <<>>
    /\ cc_jobs_to_run = <<>>
    /\ cc_idx = <<>>
    /\ cc_running_jobs = <<>>
    /\ cc_widx = <<>>
    /\ cc_procs = <<>>
    /\ cc_launched = <<>>
    /\ cc_seen_running = <<>>

IdleCompare ==
    /\ cmp_machine = FALSE
    /\ cmp_baseline_root = FALSE
    /\ cmp_test_root = FALSE
    /\ cmp_chkdiff = FALSE
    /\ baseline_dirs = <<>>
    /\ cmp_pc = "idle"
    /\ cmp_idx = 1
    /\ cmp_passed = 0
    /\ cmp_failed = 0
    /\ cmp_skipped = 0
    /\ cmp_exit = "none"

IdleSelect ==
    /\ sel_disk = {}
    /\ sel_platform = ""
    /\ case_spec = <<>>
    /\ sel_cases_to_plot = <<>>
    /\ sel_pc = "idle"
    /\ sel_exit = "none"

IdleMain ==
    /\ mn_script = "none"
    /\ mn_action = "none"
    /\ mn_env = <<>>
    /\ mn_study = FALSE
    /\ mn_case = FALSE
    /\ mn_machine = "current"
    /\ mn_detected = ""
    /\ mn_pc = "idle"
    /\ mn_valid = "none"
    /\ mn_performed = "none"
    /\ mn_created = FALSE
    /\ mn_launched = FALSE
    /\ mn_exit = "none"

(***************************************************************************)
(* sweeps.py: the filesystem.                                               *)
(***************************************************************************)
Dirs == 1..NumDirs

\* A line of a log is modelled by the set of tokens it contains.
StepLine == {"step"}
FinalLine == {"AMReX", "finalized"}

\* out.<machine>.log: absent, present but unreadable, or a list of lines.
NoLog == [st |-> "absent", lines |-> <<>>]
UnreadableLog == [st |-> "unreadable", lines |-> <<>>]
LogOf(ls) == [st |-> "file", lines |-> ls]
LogContents == {<<>>, <<StepLine>>, <<StepLine, FinalLine>>, <<FinalLine, StepLine>>}
Logs == {NoLog, UnreadableLog} \cup {LogOf(ls) : ls \in LogContents}

\* A path of the study directory: no run directory, or a run directory with its
\* log and its run.<machine>.sh. A run directory that create_runs left without
\* its script has never been run, or holds the log of a run made before the
\* script was removed.
NoDir == [dir |-> FALSE, log |-> NoLog, script |-> FALSE]
RunDirStates ==
    {NoDir} \cup [dir : {TRUE}, log : Logs, script : {TRUE}]
            \cup [dir : {TRUE}, log : {NoLog, LogOf(<<StepLine, FinalLine>>)},
                               script : {FALSE}]

\* sorted(study_dir.glob(pattern)): the existing run directories, in name order.
RECURSIVE SortedDirs(_, _)
SortedDirs(f, n) ==
    IF n = 0 THEN <<>>
    ELSE IF f[n].dir THEN Append(SortedDirs(f, n - 1), n)
         ELSE SortedDirs(f, n - 1)

\* "finalized" in last_line
HasSentinel(line) == "finalized" \in line

\* A mutant of LastLineFinalized: the sentinel anywhere in the log.
AnyLineFinalized(lines) == \E i \in 1..Len(lines) : HasSentinel(lines[i])

\* lines = f.readlines(); if lines: last_line = lines[-1]; "finalized" in last_line
LastLineFinalized(lines) ==
    Len(lines) > 0 /\ HasSentinel(lines[Len(lines)])

\* The already_done flag of one run directory: the log exists, open/readlines
\* raise nothing (an exception leaves the flag False), and the last line holds
\* the sentinel.
AlreadyDone(d) ==
    IF d.log.st = "absent" THEN FALSE
    ELSE IF d.log.st = "unreadable" THEN FALSE
    ELSE LastLineFinalized(d.log.lines)

SeqToSet(s) == {s[i] : i \in 1..Len(s)}

\* A mutant of MaxParallelReached: an off-by-one in the comparison.
MaxParallelExceeded(rj, mp) == Len(rj) > mp

\* if len(running_jobs) >= max_parallel
MaxParallelReached(rj, mp) == Len(rj) >= mp

\* A mutant of JobsToWaitFor: only the first handle is waited for.
FirstJobOnly(rj) == <<rj[1]>>

\* for proc in running_jobs: proc.wait()
JobsToWaitFor(rj) == rj

\* What a finished run script leaves as its log: the script removes the old
\* log and tees the simulator's output into a new one; the simulator ends its
\* output with the sentinel line only when it ran to completion.
ExitLogs == {LogOf(<<StepLine>>), LogOf(<<StepLine, FinalLine>>)}

\* A mutant of CountCompleted: a batch counts as one job.
CountOnePerBatch(c, rj) == c + 1

\* completed += len(running_jobs)
CountCompleted(c, rj) == c + Len(rj)

InitSweeps ==
    /\ fs \in [Dirs -> RunDirStates]
    /\ batch_mode \in BOOLEAN
    /\ max_parallel \in 1..MaxParallel
    /\ pc = "start"
    /\ run_dirs = <<>>
    /\ scan_fs = fs
    /\ already_done = {}
    /\ jobs_to_run = <<>>
    /\ skipped = 0
    /\ idx = 1
    /\ running_jobs = <<>>
    /\ widx = 1
    /\ completed = 0
    /\ procs = [d \in Dirs |-> "none"]
    /\ submitted = {}
    /\ ret = "none"
    /\ IdleRegtest
    /\ IdleMap
    /\ IdlePlot
    /\ IdleNorms
    /\ IdleSens
    /\ IdleMetrics
    /\ IdleDirname
    /\ IdleCreate
    /\ IdleStatus
    /\ IdleConcurrent
    /\ IdleCompare
    /\ IdleSelect
    /\ IdleMain

\* run_sweeps up to the launch loop: glob, completion scan, counts, early returns.
Scan ==
    /\ pc = "start"
    /\ LET rd == SortedDirs(fs, NumDirs)
           done == {d \in SeqToSet(rd) : AlreadyDone(fs[d])}
           IsJob(d) == d \notin done /\ fs[d].script
           jobs == SelectSeq(rd, IsJob)
       IN /\ run_dirs' = rd
          /\ scan_fs' = fs
          /\ IF rd = <<>>
             THEN /\ pc' = "returned"
                  /\ ret' = "False"
                  /\ UNCHANGED <<already_done, jobs_to_run, skipped>>
             ELSE /\ already_done' = done
                  /\ skipped' = Cardinality(done)
                  /\ jobs_to_run' = jobs
                  /\ IF jobs = <<>>
                     THEN pc' = "returned" /\ ret' = "True"
                     ELSE pc' = "loop" /\ ret' = ret
    /\ idx' = 1
    /\ running_jobs' = <<>>
    /\ completed' = 0
    /\ UNCHANGED <<fs, batch_mode, max_parallel, widx, procs, submitted>>
    /\ UNCHANGED nonSweepVars

\* One iteration of the launch loop in batch mode: a message, nothing submitted.
BatchJob ==
    /\ pc = "loop"
    /\ idx <= Len(jobs_to_run)
    /\ batch_mode
    /\ idx' = idx + 1
    /\ UNCHANGED <<fs, batch_mode, max_parallel, pc, run_dirs, scan_fs, already_done,
                   jobs_to_run, skipped, running_jobs, widx, completed, procs,
                   submitted, ret>>
    /\ UNCHANGED nonSweepVars

\* One iteration of the launch loop run directly: Popen, append, and the test
\* for a full batch.
LaunchJob ==
    /\ pc = "loop"
    /\ idx <= Len(jobs_to_run)
    /\ ~batch_mode
    /\ LET d == jobs_to_run[idx]
           rj == Append(running_jobs, d)
       IN /\ procs' = [procs EXCEPT ![d] = "running"]
          /\ running_jobs' = rj
          /\ IF MaxParallelReached(rj, max_parallel)
             THEN pc' = "wait" /\ widx' = 1
             ELSE pc' = "loop" /\ widx' = widx
    /\ idx' = idx + 1
    /\ UNCHANGED <<fs, batch_mode, max_parallel, run_dirs, scan_fs, already_done,
                   jobs_to_run, skipped, completed, submitted, ret>>
    /\ UNCHANGED nonSweepVars

\* proc.wait() of the batch wait returns for the next handle; after the last one
\* the batch is counted and the list emptied.
WaitBatch ==
    /\ pc = "wait"
    /\ LET ws == JobsToWaitFor(running_jobs)
       IN /\ procs[ws[widx]] = "exited"
          /\ procs' = [procs EXCEPT ![ws[widx]] = "reaped"]
          /\ IF widx = Len(ws)
             THEN /\ completed' = CountCompleted(completed, running_jobs)
                  /\ running_jobs' = <<>>
                  /\ pc' = "loop"
                  /\ widx' = 1
             ELSE /\ widx' = widx + 1
                  /\ UNCHANGED <<completed, running_jobs, pc>>
    /\ UNCHANGED <<fs, batch_mode, max_parallel, run_dirs, scan_fs, already_done,
                   jobs_to_run, skipped, idx, submitted, ret>>
    /\ UNCHANGED nonSweepVars

\* The launch loop is over: wait for the remaining jobs, if any, else return True.
EndLoop ==
    /\ pc = "loop"
    /\ idx > Len(jobs_to_run)
    /\ IF running_jobs # <<>>
       THEN pc' = "final_wait" /\ widx' = 1 /\ ret' = ret
       ELSE pc' = "returned" /\ ret' = "True" /\ widx' = widx
    /\ UNCHANGED <<fs, batch_mode, max_parallel, run_dirs, scan_fs, already_done,
                   jobs_to_run, skipped, idx, running_jobs, completed, procs,
                   submitted>>
    /\ UNCHANGED nonSweepVars

\* proc.wait() of the final wait; after the last one the jobs are counted and
\* run_sweeps returns True.
WaitFinal ==
    /\ pc = "final_wait"
    /\ LET ws == JobsToWaitFor(running_jobs)
       IN /\ procs[ws[widx]] = "exited"
          /\ procs' = [procs EXCEPT ![ws[widx]] = "reaped"]
          /\ IF widx = Len(ws)
             THEN /\ completed' = CountCompleted(completed, running_jobs)
                  /\ pc' = "returned"
                  /\ ret' = "True"
                  /\ widx' = 1
             ELSE /\ widx' = widx + 1
                  /\ UNCHANGED <<completed, pc, ret>>
    /\ UNCHANGED <<fs, batch_mode, max_parallel, run_dirs, scan_fs, already_done,
                   jobs_to_run, skipped, idx, running_jobs, submitted>>
    /\ UNCHANGED nonSweepVars

\* A launched run script ends: it has replaced the log of its run directory.
ProcExit ==
    \E d \in Dirs, l \in ExitLogs :
        /\ procs[d] = "running"
        /\ procs' = [procs EXCEPT ![d] = "exited"]
        /\ fs' = [fs EXCEPT ![d].log = l]
        /\ UNCHANGED <<batch_mode, max_parallel, pc, run_dirs, scan_fs, already_done,
                       jobs_to_run, skipped, idx, running_jobs, widx, completed,
                       submitted, ret>>
        /\ UNCHANGED nonSweepVars

\* The user invokes "sweeps.py run" again, with any --max-parallel: the locals
\* of the invocation that returned are gone, the filesystem is as the run
\* scripts left it.
Reinvoke ==
    /\ pc = "returned"
    /\ max_parallel' \in 1..MaxParallel
    /\ pc' = "start"
    /\ run_dirs' = <<>>
    /\ scan_fs' = fs
    /\ already_done' = {}
    /\ jobs_to_run' = <<>>
    /\ skipped' = 0
    /\ idx' = 1
    /\ running_jobs' = <<>>
    /\ widx' = 1
    /\ completed' = 0
    /\ procs' = [d \in Dirs |-> "none"]
    /\ ret' = "none"
    /\ UNCHANGED <<fs, batch_mode, submitted>>
    /\ UNCHANGED nonSweepVars

NextSweeps ==
    \/ Scan
    \/ BatchJob
    \/ LaunchJob
    \/ WaitBatch
    \/ EndLoop
    \/ WaitFinal
    \/ ProcExit
    \/ Reinvoke

SpecSweeps == InitSweeps /\ [][NextSweeps]_vars

\* One invocation of run_sweeps in which the interpreter keeps running and every
\* launched run script comes to its end.
NextSweepsOnce ==
    \/ Scan
    \/ BatchJob
    \/ LaunchJob
    \/ WaitBatch
    \/ EndLoop
    \/ WaitFinal
    \/ ProcExit

\* The study directory before a first or a resumed run: a path is no run
\* directory, a run directory never run, or one whose run was completed.
FreshOrDone ==
    {NoDir,
     [dir |-> TRUE, log |-> NoLog, script |-> TRUE],
     [dir |-> TRUE, log |-> LogOf(<<StepLine, FinalLine>>), script |-> TRUE]}

InitSweepsFair ==
    /\ InitSweeps
    /\ \A d \in Dirs : fs[d] \in FreshOrDone

SpecSweepsFair ==
    /\ InitSweepsFair
    /\ [][NextSweepsOnce]_vars
    /\ WF_vars(Scan)
    /\ WF_vars(BatchJob)
    /\ WF_vars(LaunchJob)
    /\ WF_vars(WaitBatch)
    /\ WF_vars(EndLoop)
    /\ WF_vars(WaitFinal)
    /\ WF_vars(ProcExit)

(***************************************************************************)
(* regtest.py: run_baselines and run_tests.  The two methods are the same    *)
(* code over baselines/ and tests/; rt_action says which one runs.          *)
(***************************************************************************)
TestCases == 1..NumTestDirs

\* <case>.<machine> under baselines/ (tests/): absent, or a directory with or
\* without its .disabled marker, its run.*.<machine>.sh and its
\* exaepi.*.<machine>.job.
NoTestDir == [dir |-> FALSE, disabled |-> FALSE, run_script |-> FALSE, job_script |-> FALSE]
TestDirStates ==
    {NoTestDir,
     [dir |-> TRUE, disabled |-> TRUE, run_script |-> TRUE, job_script |-> TRUE],
     [dir |-> TRUE, disabled |-> FALSE, run_script |-> FALSE, job_script |-> FALSE],
     [dir |-> TRUE, disabled |-> FALSE, run_script |-> TRUE, job_script |-> TRUE]}

\* sorted(test_dir.glob(f"*.{machine}")), then the --cases filter when given.
RECURSIVE GlobTestDirs(_, _, _)
GlobTestDirs(f, cases, n) ==
    IF n = 0 THEN <<>>
    ELSE IF f[n].dir /\ (cases = {} \/ n \in cases)
         THEN Append(GlobTestDirs(f, cases, n - 1), n)
         ELSE GlobTestDirs(f, cases, n - 1)

InitRegtest ==
    /\ rt_action \in {"run-baseline", "run-test"}
    /\ rt_root \in BOOLEAN
    /\ rt_fs \in [TestCases -> TestDirStates]
    /\ rt_root = FALSE => \A c \in TestCases : rt_fs[c] = NoTestDir
    /\ rt_cases \in SUBSET TestCases
    /\ rt_batch_mode \in BOOLEAN
    /\ rt_pc = "start"
    /\ test_dirs = <<>>
    /\ rt_idx = 1
    /\ rt_procs = [c \in TestCases |-> "none"]
    /\ rt_submitted = {}
    /\ IdleSweeps
    /\ IdleMap
    /\ IdlePlot
    /\ IdleNorms
    /\ IdleSens
    /\ IdleMetrics
    /\ IdleDirname
    /\ IdleCreate
    /\ IdleStatus
    /\ IdleConcurrent
    /\ IdleCompare
    /\ IdleSelect
    /\ IdleMain

\* run_tests / run_baselines up to the loop: the directory check (sys.exit(1)),
\* the glob (return when it is empty) and the --cases filter.
RtStart ==
    /\ rt_pc = "start"
    /\ IF ~rt_root
       THEN rt_pc' = "exit1" /\ test_dirs' = test_dirs
       ELSE IF GlobTestDirs(rt_fs, {}, NumTestDirs) = <<>>
            THEN rt_pc' = "returned" /\ test_dirs' = test_dirs
            ELSE /\ rt_pc' = "loop"
                 /\ test_dirs' = GlobTestDirs(rt_fs, rt_cases, NumTestDirs)
    /\ UNCHANGED <<rt_action, rt_root, rt_fs, rt_cases, rt_batch_mode, rt_idx,
                   rt_procs, rt_submitted>>
    /\ UNCHANGED nonRegtestVars

\* A loop iteration that launches nothing: the case is disabled, or the script
\* the mode needs is missing.
RtSkip ==
    /\ rt_pc = "loop"
    /\ rt_idx <= Len(test_dirs)
    /\ LET d == rt_fs[test_dirs[rt_idx]]
       IN \/ d.disabled
          \/ ~d.disabled /\ rt_batch_mode /\ ~d.job_script
          \/ ~d.disabled /\ ~rt_batch_mode /\ ~d.run_script
    /\ rt_idx' = rt_idx + 1
    /\ UNCHANGED <<rt_action, rt_root, rt_fs, rt_cases, rt_batch_mode, rt_pc, test_dirs,
                   rt_procs, rt_submitted>>
    /\ UNCHANGED nonRegtestVars

\* A loop iteration in batch mode: subprocess.run(['sbatch', job_script]).
RtSubmit ==
    /\ rt_pc = "loop"
    /\ rt_idx <= Len(test_dirs)
    /\ LET c == test_dirs[rt_idx]
       IN /\ ~rt_fs[c].disabled
          /\ rt_batch_mode
          /\ rt_fs[c].job_script
          /\ rt_submitted' = rt_submitted \cup {c}
    /\ rt_idx' = rt_idx + 1
    /\ UNCHANGED <<rt_action, rt_root, rt_fs, rt_cases, rt_batch_mode, rt_pc, test_dirs,
                   rt_procs>>
    /\ UNCHANGED nonRegtestVars

\* A loop iteration run directly: subprocess.Popen of the run script; the handle
\* is dropped and the loop goes on.
RtLaunch ==
    /\ rt_pc = "loop"
    /\ rt_idx <= Len(test_dirs)
    /\ LET c == test_dirs[rt_idx]
       IN /\ ~rt_fs[c].disabled
          /\ ~rt_batch_mode
          /\ rt_fs[c].run_script
          /\ rt_procs' = [rt_procs EXCEPT ![c] = "running"]
    /\ rt_idx' = rt_idx + 1
    /\ UNCHANGED <<rt_action, rt_root, rt_fs, rt_cases, rt_batch_mode, rt_pc, test_dirs,
                   rt_submitted>>
    /\ UNCHANGED nonRegtestVars

\* The loop is over: in direct mode two messages are printed, and the method
\* returns.
RtReturn ==
    /\ rt_pc = "loop"
    /\ rt_idx > Len(test_dirs)
    /\ rt_pc' = "returned"
    /\ UNCHANGED <<rt_action, rt_root, rt_fs, rt_cases, rt_batch_mode, test_dirs, rt_idx,
                   rt_procs, rt_submitted>>
    /\ UNCHANGED nonRegtestVars

\* A launched run script ends.
RtProcExit ==
    \E c \in TestCases :
        /\ rt_procs[c] = "running"
        /\ rt_procs' = [rt_procs EXCEPT ![c] = "exited"]
        /\ UNCHANGED <<rt_action, rt_root, rt_fs, rt_cases, rt_batch_mode, rt_pc,
                       test_dirs, rt_idx, rt_submitted>>
        /\ UNCHANGED nonRegtestVars

NextRegtest ==
    \/ RtStart
    \/ RtSkip
    \/ RtSubmit
    \/ RtLaunch
    \/ RtReturn
    \/ RtProcExit

SpecRegtest == InitRegtest /\ [][NextRegtest]_vars


(***************************************************************************)
(* scripts/plot_infections_map.py: main's loop over the selected cases and   *)
(* process_case.                                                            *)
(***************************************************************************)
\* The stride of the default step list, range(0, last + 1, 10).
StepStride == 10

\* The timesteps a run directory may hold cases files for.
StepUniverse == {0, StepStride}

SetMax(S) == CHOOSE x \in S : \A y \in S : y <= x

\* A run directory of cases_to_plot: whether it is a directory, the steps
\* detect_steps finds (files of any of the three name formats), the steps that
\* have a plain casesNNNNN file, whether US.dat exists, and whether
\* detect_diseases_from_files finds more than one disease.
SingleDiseaseRuns ==
    {c \in [isdir : {TRUE}, all_steps : SUBSET StepUniverse, plain : SUBSET StepUniverse,
            us_dat : BOOLEAN, multi : {FALSE}] : c.plain \subseteq c.all_steps}
MultiDiseaseRuns ==
    [isdir : {TRUE}, all_steps : SUBSET StepUniverse, plain : {{}},
     us_dat : BOOLEAN, multi : {TRUE}]
MapRunDirs == SingleDiseaseRuns \cup MultiDiseaseRuns

\* --steps: absent, or one or more step numbers.
StepArgs ==
    {[given |-> FALSE, steps |-> {}]}
        \cup [given : {TRUE}, steps : (SUBSET StepUniverse) \ {{}}]

\* steps = list(range(0, all_steps[-1] + 1, 10)), plus the last step
DefaultSteps(last) == {st \in 0..last : st % StepStride = 0} \cup {last}

\* The steps process_case plots.
StepsToPlot(c, a) == IF a.given THEN a.steps ELSE DefaultSteps(SetMax(c.all_steps))

\* load_fips_mapping: sys.exit when US.dat is missing.
FipsMappingExits(c) == ~c.us_dat

\* load_cases without a disease: sys.exit when casesNNNNN is missing; with a
\* disease it returns None and the caller goes on.
LoadCasesExits(c, a) == ~c.multi /\ ~(StepsToPlot(c, a) \subseteq c.plain)

\* How process_case ends for one run directory.
ProcessCase(c, a) ==
    IF ~c.isdir THEN "error_return"
    ELSE IF c.all_steps = {} THEN "error_return"
    ELSE IF FipsMappingExits(c) THEN "sys_exit"
    ELSE IF LoadCasesExits(c, a) THEN "sys_exit"
    ELSE "plotted"

InitMap ==
    /\ \E n \in 1..NumMapCases : cases_to_plot \in [1..n -> MapRunDirs]
    /\ args_steps \in StepArgs
    /\ pm_pc = "loop"
    /\ pm_idx = 1
    /\ pm_plotted = {}
    /\ pm_skipped = {}
    /\ pm_exit = "none"
    /\ IdleSweeps
    /\ IdleRegtest
    /\ IdlePlot
    /\ IdleNorms
    /\ IdleSens
    /\ IdleMetrics
    /\ IdleDirname
    /\ IdleCreate
    /\ IdleStatus
    /\ IdleConcurrent
    /\ IdleCompare
    /\ IdleSelect
    /\ IdleMain

\* process_case runs to its end and the maps of the case are written.
PmPlotCase ==
    /\ pm_pc = "loop"
    /\ pm_idx <= Len(cases_to_plot)
    /\ ProcessCase(cases_to_plot[pm_idx], args_steps) = "plotted"
    /\ pm_plotted' = pm_plotted \cup {pm_idx}
    /\ pm_idx' = pm_idx + 1
    /\ UNCHANGED <<cases_to_plot, args_steps, pm_pc, pm_skipped, pm_exit>>
    /\ UNCHANGED nonMapVars

\* process_case prints an ERROR and returns; the loop goes on.
PmSkipCase ==
    /\ pm_pc = "loop"
    /\ pm_idx <= Len(cases_to_plot)
    /\ ProcessCase(cases_to_plot[pm_idx], args_steps) = "error_return"
    /\ pm_skipped' = pm_skipped \cup {pm_idx}
    /\ pm_idx' = pm_idx + 1
    /\ UNCHANGED <<cases_to_plot, args_steps, pm_pc, pm_plotted, pm_exit>>
    /\ UNCHANGED nonMapVars

\* load_fips_mapping or load_cases calls sys.exit with a message: the process
\* ends with status 1.
PmSysExit ==
    /\ pm_pc = "loop"
    /\ pm_idx <= Len(cases_to_plot)
    /\ ProcessCase(cases_to_plot[pm_idx], args_steps) = "sys_exit"
    /\ pm_pc' = "exited"
    /\ pm_exit' = "1"
    /\ UNCHANGED <<cases_to_plot, args_steps, pm_idx, pm_plotted, pm_skipped>>
    /\ UNCHANGED nonMapVars

\* The loop is over: "Done!", and main returns.
PmDone ==
    /\ pm_pc = "loop"
    /\ pm_idx > Len(cases_to_plot)
    /\ pm_pc' = "exited"
    /\ pm_exit' = "0"
    /\ UNCHANGED <<cases_to_plot, args_steps, pm_idx, pm_plotted, pm_skipped>>
    /\ UNCHANGED nonMapVars

NextMap ==
    \/ PmPlotCase
    \/ PmSkipCase
    \/ PmSysExit
    \/ PmDone

SpecMap == InitMap /\ [][NextMap]_vars


(***************************************************************************)
(* regtests/plot_results.py: main, plot_all and plot_case.                  *)
(***************************************************************************)
PlotCases == 1..NumPlotCases

\* load_output_data needs at least 18 columns.
MinColumns == 18

\* An output.dat / output_<disease>.dat file: missing, not parsable as a numeric
\* table, or a table of some rows and columns after the header line.
MissingFile == [st |-> "missing", rows |-> 0, cols |-> 0]
UnparsableFile == [st |-> "unparsable", rows |-> 0, cols |-> 0]
OutputFiles ==
    {MissingFile, UnparsableFile}
        \cup [st : {"table"}, rows : {1, 2, 3},
              cols : {MinColumns - 1, MinColumns, MinColumns + 1}]

\* load_output_data returns an array (and no error) or None (and an error):
\* loadtxt raises on an unparsable file; a one-row table loads as a 1-D array,
\* on which data.shape[1] raises; fewer than 18 columns are refused.
LoadOutputData(f) ==
    IF f.st = "missing" THEN "None"
    ELSE IF f.st = "unparsable" THEN "None"
    ELSE IF f.rows = 1 THEN "None"
    ELSE IF f.cols < MinColumns THEN "None"
    ELSE "array"

\* A mutant of ShapesMatch: only the column counts are compared.
SameColumns(b, t) == b.cols = t.cols

\* baseline_data.shape != test_data.shape, negated
ShapesMatch(b, t) == b.rows = t.rows /\ b.cols = t.cols

\* What plot_case does with one output file of the case: the message it records,
\* or "append" when the pair goes to the two data lists.
LoadPair(b, t) ==
    IF b.st = "missing" THEN "baseline_not_found"
    ELSE IF t.st = "missing" THEN "test_not_found"
    ELSE IF LoadOutputData(b) = "None" THEN "baseline_load_error"
    ELSE IF LoadOutputData(t) = "None" THEN "test_load_error"
    ELSE IF ~ShapesMatch(b, t) THEN "shape_mismatch"
    ELSE "append"

\* test_cases = [(c, m) for c, m in test_cases if c in cases]
FilterCases(tc, cases) ==
    LET Keep(c) == c \in cases IN SelectSeq(tc, Keep)

\* A mutant of PlotAllResult: success only when no case failed.
NoCaseFailed(sc, failed) == failed = <<>>

\* return success_count > 0
PlotAllResult(sc, failed) == sc > 0

\* sys.exit(main()): return 0 if success else 1
ExitCode(success) == IF success THEN "0" ELSE "1"

\* The disease create_comparison_plot names each pair by, in the norm table and
\* in the legend: num_diseases = len(baseline_data_list), and the pair at
\* position disease_idx gets disease_names[disease_idx] when num_diseases > 1,
\* no name (0) otherwise.  Diseases are numbered as disease_names lists them.
DiseaseLabels(bl) ==
    [i \in 1..Len(bl) |-> IF Len(bl) > 1 THEN i ELSE 0]

InitPlot ==
    /\ matplotlib_available \in BOOLEAN
    /\ \E n \in 0..NumPlotCases : pr_found = [i \in 1..n |-> i]
    /\ cases_arg \in SUBSET PlotCases
    /\ pr_pc = "start"
    /\ test_cases = <<>>
    /\ pr_ci = 1
    /\ num_diseases = 1
    /\ disease_idx = 1
    /\ baseline_data_list = <<>>
    /\ test_data_list = <<>>
    /\ error_messages = <<>>
    /\ pr_result = "none"
    /\ success_count = 0
    /\ failed_cases = <<>>
    /\ pr_exit = "none"
    /\ pr_mismatched = {}
    /\ pr_good = {}
    /\ pr_norms = {}
    /\ pr_plotted = {}
    /\ pr_mismatch_cases = {}
    /\ pr_labels = <<>>
    /\ IdleSweeps
    /\ IdleRegtest
    /\ IdleMap
    /\ IdleNorms
    /\ IdleSens
    /\ IdleMetrics
    /\ IdleDirname
    /\ IdleCreate
    /\ IdleStatus
    /\ IdleConcurrent
    /\ IdleCompare
    /\ IdleSelect
    /\ IdleMain

\* plot_all up to its loop: the matplotlib check, find_test_directories, the
\* cases filter; each early return makes main exit with status 1.
PlotAllStart ==
    /\ pr_pc = "start"
    /\ LET filtered == IF cases_arg # {} THEN FilterCases(pr_found, cases_arg)
                       ELSE pr_found
       IN IF ~matplotlib_available \/ pr_found = <<>> \/ filtered = <<>>
          THEN /\ pr_pc' = "exited"
               /\ pr_exit' = ExitCode(FALSE)
               /\ test_cases' = IF matplotlib_available THEN filtered ELSE test_cases
          ELSE /\ pr_pc' = "plot_case"
               /\ pr_exit' = pr_exit
               /\ test_cases' = filtered
    /\ UNCHANGED <<matplotlib_available, pr_found, cases_arg, pr_ci, num_diseases,
                   disease_idx, baseline_data_list, test_data_list, error_messages,
                   pr_result, success_count, failed_cases, pr_mismatched, pr_good,
                   pr_norms, pr_plotted>>
    /\ UNCHANGED pr_mismatch_cases
    /\ UNCHANGED pr_labels
    /\ UNCHANGED nonPlotVars

\* plot_case up to its loop: the disease configuration of the case is parsed and
\* the lists are created.
PlotCaseStart ==
    /\ pr_pc = "plot_case"
    /\ num_diseases' \in 1..MaxDiseases
    /\ disease_idx' = 1
    /\ baseline_data_list' = <<>>
    /\ test_data_list' = <<>>
    /\ error_messages' = <<>>
    /\ pr_result' = "none"
    /\ pr_mismatched' = {}
    /\ pr_good' = {}
    /\ pr_norms' = {}
    /\ pr_labels' = <<>>
    /\ pr_pc' = "load"
    /\ UNCHANGED <<matplotlib_available, pr_found, cases_arg, test_cases, pr_ci,
                   success_count, failed_cases, pr_exit, pr_plotted>>
    /\ UNCHANGED pr_mismatch_cases
    /\ UNCHANGED nonPlotVars

\* One iteration of plot_case's loop over the output files: the two files are
\* looked up and loaded, and the pair is appended or an error message recorded.
LoadDisease ==
    /\ pr_pc = "load"
    /\ disease_idx <= num_diseases
    /\ \E b \in OutputFiles, t \in OutputFiles :
        LET both == LoadOutputData(b) = "array" /\ LoadOutputData(t) = "array"
            todo == LoadPair(b, t)
        IN /\ IF todo = "append"
              THEN /\ baseline_data_list' =
                        Append(baseline_data_list,
                               [disease |-> disease_idx, rows |-> b.rows, cols |-> b.cols])
                   /\ test_data_list' =
                        Append(test_data_list,
                               [disease |-> disease_idx, rows |-> t.rows, cols |-> t.cols])
                   /\ error_messages' = error_messages
              ELSE /\ error_messages' =
                        Append(error_messages, [disease |-> disease_idx, kind |-> todo])
                   /\ UNCHANGED <<baseline_data_list, test_data_list>>
           /\ pr_mismatched' =
                IF both /\ <<b.rows, b.cols>> # <<t.rows, t.cols>>
                THEN pr_mismatched \cup {disease_idx} ELSE pr_mismatched
           /\ pr_good' =
                IF both /\ <<b.rows, b.cols>> = <<t.rows, t.cols>>
                THEN pr_good \cup {disease_idx} ELSE pr_good
           /\ pr_mismatch_cases' =
                IF both /\ <<b.rows, b.cols>> # <<t.rows, t.cols>>
                THEN pr_mismatch_cases \cup {pr_ci} ELSE pr_mismatch_cases
    /\ disease_idx' = disease_idx + 1
    /\ UNCHANGED <<matplotlib_available, pr_found, cases_arg, pr_pc, test_cases, pr_ci,
                   num_diseases, pr_result, success_count, failed_cases, pr_exit,
                   pr_norms, pr_plotted>>
    /\ UNCHANGED pr_labels
    /\ UNCHANGED nonPlotVars

\* The loop is over and a list is empty: plot_case returns False with the joined
\* error messages.
PlotCaseNoData ==
    /\ pr_pc = "load"
    /\ disease_idx > num_diseases
    /\ baseline_data_list = <<>> \/ test_data_list = <<>>
    /\ pr_result' = "no_data"
    /\ pr_pc' = "case_done"
    /\ UNCHANGED <<matplotlib_available, pr_found, cases_arg, test_cases, pr_ci,
                   num_diseases, disease_idx, baseline_data_list, test_data_list,
                   error_messages, success_count, failed_cases, pr_exit, pr_mismatched,
                   pr_good, pr_norms, pr_plotted>>
    /\ UNCHANGED pr_mismatch_cases
    /\ UNCHANGED pr_labels
    /\ UNCHANGED nonPlotVars

\* create_comparison_plot runs to its end: compute_norms has been applied to
\* every pair of the two lists and the figure is saved; plot_case returns True.
CreatePlot ==
    /\ pr_pc = "load"
    /\ disease_idx > num_diseases
    /\ baseline_data_list # <<>> /\ test_data_list # <<>>
    /\ pr_norms' = {baseline_data_list[i].disease : i \in 1..Len(baseline_data_list)}
    /\ pr_plotted' = pr_plotted \cup {pr_ci}
    /\ pr_labels' = DiseaseLabels(baseline_data_list)
    /\ pr_result' = "ok"
    /\ pr_pc' = "case_done"
    /\ UNCHANGED <<matplotlib_available, pr_found, cases_arg, test_cases, pr_ci,
                   num_diseases, disease_idx, baseline_data_list, test_data_list,
                   error_messages, success_count, failed_cases, pr_exit, pr_mismatched,
                   pr_good>>
    /\ UNCHANGED pr_mismatch_cases
    /\ UNCHANGED nonPlotVars

\* create_comparison_plot raises (the figure cannot be saved, say): the
\* exception is caught and plot_case returns False.
CreatePlotRaises ==
    /\ pr_pc = "load"
    /\ disease_idx > num_diseases
    /\ baseline_data_list # <<>> /\ test_data_list # <<>>
    /\ pr_result' = "plot_failed"
    /\ pr_pc' = "case_done"
    /\ UNCHANGED <<matplotlib_available, pr_found, cases_arg, test_cases, pr_ci,
                   num_diseases, disease_idx, baseline_data_list, test_data_list,
                   error_messages, success_count, failed_cases, pr_exit, pr_mismatched,
                   pr_good, pr_norms, pr_plotted>>
    /\ UNCHANGED pr_mismatch_cases
    /\ UNCHANGED pr_labels
    /\ UNCHANGED nonPlotVars

\* plot_all's loop body after plot_case returned: the tally, and the next case.
TallyCase ==
    /\ pr_pc = "case_done"
    /\ IF pr_result = "ok"
       THEN success_count' = success_count + 1 /\ failed_cases' = failed_cases
       ELSE /\ failed_cases' =
                 Append(failed_cases, [case |-> test_cases[pr_ci], error |-> pr_result])
            /\ success_count' = success_count
    /\ pr_ci' = pr_ci + 1
    /\ pr_pc' = IF pr_ci + 1 > Len(test_cases) THEN "summary" ELSE "plot_case"
    /\ UNCHANGED <<matplotlib_available, pr_found, cases_arg, test_cases, num_diseases,
                   disease_idx, baseline_data_list, test_data_list, error_messages,
                   pr_result, pr_exit, pr_mismatched, pr_good, pr_norms, pr_plotted>>
    /\ UNCHANGED pr_mismatch_cases
    /\ UNCHANGED pr_labels
    /\ UNCHANGED nonPlotVars

\* plot_all prints its summary and returns; main turns the result into the exit
\* status.
PlotAllReturn ==
    /\ pr_pc = "summary"
    /\ pr_exit' = ExitCode(PlotAllResult(success_count, failed_cases))
    /\ pr_pc' = "exited"
    /\ UNCHANGED <<matplotlib_available, pr_found, cases_arg, test_cases, pr_ci,
                   num_diseases, disease_idx, baseline_data_list, test_data_list,
                   error_messages, pr_result, success_count, failed_cases,
                   pr_mismatched, pr_good, pr_norms, pr_plotted>>
    /\ UNCHANGED pr_mismatch_cases
    /\ UNCHANGED pr_labels
    /\ UNCHANGED nonPlotVars

NextPlot ==
    \/ PlotAllStart
    \/ PlotCaseStart
    \/ LoadDisease
    \/ PlotCaseNoData
    \/ CreatePlot
    \/ CreatePlotRaises
    \/ TallyCase
    \/ PlotAllReturn

SpecPlot == InitPlot /\ [][NextPlot]_vars


(***************************************************************************)
(* regtests/plot_results.py: compute_norms.  The vectors hold finite        *)
(* numbers, here integers, so that every sum, square and comparison is      *)
(* exact.  A square root is kept as its radicand and a quotient as its      *)
(* numerator and denominator.                                               *)
(***************************************************************************)
Values == -MaxVal..MaxVal

Vectors == UNION {[1..n -> Values] : n \in 0..MaxLen}

Abs(x) == IF x < 0 THEN -x ELSE x

RECURSIVE SumSeq(_)
SumSeq(s) == IF s = <<>> THEN 0 ELSE Head(s) + SumSeq(Tail(s))

RECURSIVE MaxSeq(_)
MaxSeq(s) ==
    IF Len(s) = 1 THEN Head(s)
    ELSE LET m == MaxSeq(Tail(s)) IN IF Head(s) > m THEN Head(s) ELSE m

\* np.sqrt(x), kept exact
Sqrt(x) == [sqrt_of |-> x]

\* the float 0.0 of the relative norms, as a quotient
ZeroQuotient == [num |-> 0, den |-> 1]

\* numpy broadcasting of two 1-D arrays: equal lengths, or one of length 1
Broadcastable(m, n) == m = n \/ m = 1 \/ n = 1

BroadcastLen(m, n) == IF m = 1 THEN n ELSE m

\* the element of v that faces position i of the broadcast result
At(v, i) == IF Len(v) = 1 THEN v[1] ELSE v[i]

\* A mutant of Diff: the vectors are added.
SumOfVectors(t, b) ==
    [i \in 1..BroadcastLen(Len(t), Len(b)) |-> At(t, i) + At(b, i)]

\* diff = test_values - baseline_values
Diff(t, b) ==
    [i \in 1..BroadcastLen(Len(t), Len(b)) |-> At(t, i) - At(b, i)]

\* np.sum(np.abs(v))
L1(v) == SumSeq([i \in 1..Len(v) |-> Abs(v[i])])

\* np.sum(v**2), the radicand of the L2 norm
SumOfSquares(v) == SumSeq([i \in 1..Len(v) |-> v[i] * v[i]])

\* np.max(np.abs(v))
Linf(v) == MaxSeq([i \in 1..Len(v) |-> Abs(v[i])])

\* A mutant of Relative: the quotient is taken whatever the baseline norm is.
RelativeUnguarded(x, baseline) == [num |-> x, den |-> baseline]

\* x / baseline if baseline > 0 else 0.0
Relative(x, baseline) ==
    IF baseline > 0 THEN [num |-> x, den |-> baseline] ELSE ZeroQuotient

\* the same for the L2 norms, whose values are square roots
RelativeSqrt(x, baseline) ==
    IF baseline.sqrt_of > 0 THEN [num |-> x.sqrt_of, den |-> baseline.sqrt_of]
    ELSE ZeroQuotient

\* compute_norms raises ValueError: the subtraction cannot broadcast, or np.max
\* is applied to an empty array.
ComputeNormsRaises(b, t) ==
    \/ ~Broadcastable(Len(t), Len(b))
    \/ BroadcastLen(Len(t), Len(b)) = 0
    \/ Len(b) = 0

\* The dict compute_norms returns; l2_rel is the quotient of the radicands.
ComputeNorms(b, t) ==
    LET diff == Diff(t, b)
        l1_abs == L1(diff)
        l2_abs == Sqrt(SumOfSquares(diff))
        linf_abs == Linf(diff)
        baseline_l1 == L1(b)
        baseline_l2 == Sqrt(SumOfSquares(b))
        baseline_linf == Linf(b)
    IN [l1_abs |-> l1_abs,
        l2_abs |-> l2_abs,
        linf_abs |-> linf_abs,
        l1_rel |-> Relative(l1_abs, baseline_l1),
        l2_rel |-> RelativeSqrt(l2_abs, baseline_l2),
        linf_rel |-> Relative(linf_abs, baseline_linf)]

InitNorms ==
    /\ baseline_values \in Vectors
    /\ test_values \in Vectors
    /\ norms = <<>>
    /\ cn_pc = "call"
    /\ IdleSweeps
    /\ IdleRegtest
    /\ IdleMap
    /\ IdlePlot
    /\ IdleSens
    /\ IdleMetrics
    /\ IdleDirname
    /\ IdleCreate
    /\ IdleStatus
    /\ IdleConcurrent
    /\ IdleCompare
    /\ IdleSelect
    /\ IdleMain

\* compute_norms returns its dict.
CallComputeNorms ==
    /\ cn_pc = "call"
    /\ ~ComputeNormsRaises(baseline_values, test_values)
    /\ norms' = <<ComputeNorms(baseline_values, test_values)>>
    /\ cn_pc' = "returned"
    /\ UNCHANGED <<baseline_values, test_values>>
    /\ UNCHANGED nonNormVars

\* compute_norms raises and returns nothing.
CallComputeNormsRaises ==
    /\ cn_pc = "call"
    /\ ComputeNormsRaises(baseline_values, test_values)
    /\ cn_pc' = "raised"
    /\ UNCHANGED <<baseline_values, test_values, norms>>
    /\ UNCHANGED nonNormVars

NextNorms ==
    \/ CallComputeNorms
    \/ CallComputeNormsRaises

SpecNorms == InitNorms /\ [][NextNorms]_vars

(***************************************************************************)
(* multidisease/sensitivity/analyze_sensitivity.py: main,                   *)
(* print_metrics_table and load_ensemble.                                   *)
(***************************************************************************)
\* COIMM_SWEEP and COSUS_SWEEP, each with its pair of diseases
NumSweeps == 2
NumSweepDiseases == 2
COL_DAY == 0
COL_D == 15

SweepCases == 1..NumSweepCases

\* A run_NNN/output_<disease>.dat file of an ensemble: absent, not parsable by
\* loadtxt, or a table of some rows and columns (a file with nothing after the
\* header loads as one row of no columns).
AbsentRun == [st |-> "absent", rows |-> 0, cols |-> 0]
UnparsableRun == [st |-> "unparsable", rows |-> 0, cols |-> 0]
RealizationFiles ==
    {AbsentRun, UnparsableRun, [st |-> "table", rows |-> 1, cols |-> 0]}
        \cup [st : {"table"}, rows : {1, 2}, cols : {COL_D + 2, COL_D + 3}]

Ensembles == [1..MaxRuns -> RealizationFiles]

RECURSIVE MinRows(_)
MinRows(ad) ==
    IF Len(ad) = 1 THEN ad[1].rows
    ELSE LET m == MinRows(Tail(ad)) IN IF ad[1].rows < m THEN ad[1].rows ELSE m

\* load_ensemble: absent files are skipped, a file loadtxt cannot parse is
\* passed over; np.stack raises ValueError when the column counts differ and
\* stacked[0, :, COL_DAY] raises IndexError when there is no such column.
LoadEnsemble(files) ==
    LET IsTable(f) == f.st = "table"
        all_data == SelectSeq(files, IsTable)
    IN IF all_data = <<>> THEN [result |-> "None", n_runs |-> 0, n_days |-> 0, n_cols |-> 0]
       ELSE IF \E i, j \in 1..Len(all_data) : all_data[i].cols # all_data[j].cols
       THEN [result |-> "ValueError", n_runs |-> 0, n_days |-> 0, n_cols |-> 0]
       ELSE IF all_data[1].cols <= COL_DAY
       THEN [result |-> "IndexError", n_runs |-> 0, n_days |-> 0, n_cols |-> 0]
       ELSE [result |-> "stacked", n_runs |-> Len(all_data),
             n_days |-> MinRows(all_data), n_cols |-> all_data[1].cols]

\* np.std(..., ddof=1) of n values divides by n - 1: NaN for a single value.
StdIsNaN(n) == n - 1 = 0

\* What one row of print_metrics_table comes to for an ensemble directory that
\* exists: "(no data)", the metrics, or the exception that load_ensemble or
\* extract_metrics raises.
RowOutcome(files) ==
    LET e == LoadEnsemble(files)
    IN IF e.result = "None" THEN "no_data"
       ELSE IF e.result # "stacked" THEN e.result
       ELSE IF e.n_cols <= COL_D THEN "IndexError"
       ELSE "metrics"

\* A realization file that is present but malformed: not parsable, without
\* columns, or with a column count different from another realization's.
HasMalformedRun(files) ==
    \/ \E i \in 1..Len(files) : files[i].st = "unparsable"
    \/ \E i \in 1..Len(files) : files[i].st = "table" /\ files[i].cols = 0
    \/ \E i, j \in 1..Len(files) :
          /\ files[i].st = "table" /\ files[j].st = "table"
          /\ files[i].cols # files[j].cols

InitSens ==
    /\ no_plots \in BOOLEAN
    /\ ens_dirs \in SUBSET ((1..NumSweeps) \X SweepCases)
    /\ sa_pc = "start"
    /\ sa_sweep = 1
    /\ sa_di = 1
    /\ sa_ci = 1
    /\ sa_reported = {}
    /\ sa_malformed = {}
    /\ sa_fallback = FALSE
    /\ sa_nan_std = FALSE
    /\ sa_raised = "none"
    /\ sa_exit = "none"
    /\ IdleSweeps
    /\ IdleRegtest
    /\ IdleMap
    /\ IdlePlot
    /\ IdleNorms
    /\ IdleMetrics
    /\ IdleDirname
    /\ IdleCreate
    /\ IdleStatus
    /\ IdleConcurrent
    /\ IdleCompare
    /\ IdleSelect
    /\ IdleMain

\* main up to the first table: without any ensemble directory it exits with 1.
SaStart ==
    /\ sa_pc = "start"
    /\ IF ens_dirs = {}
       THEN sa_pc' = "exited" /\ sa_exit' = "1"
       ELSE sa_pc' = "table" /\ sa_exit' = sa_exit
    /\ UNCHANGED <<no_plots, ens_dirs, sa_sweep, sa_di, sa_ci, sa_reported,
                   sa_malformed, sa_fallback, sa_raised>>
    /\ UNCHANGED sa_nan_std
    /\ UNCHANGED nonSensVars

\* The last row of a table has been printed.
TableEnds == sa_ci = NumSweepCases /\ sa_di = NumSweepDiseases

\* After a printed row: the next case, the next disease, or what main does after
\* the table: the plots of the sweep, the next sweep's table, or "Done.".
AfterRow(fallback) ==
    /\ sa_ci' = IF sa_ci < NumSweepCases THEN sa_ci + 1 ELSE 1
    /\ sa_di' = IF sa_ci < NumSweepCases THEN sa_di
                ELSE IF sa_di < NumSweepDiseases THEN sa_di + 1 ELSE 1
    /\ IF TableEnds /\ ~no_plots
       THEN sa_pc' = "plots" /\ UNCHANGED <<sa_sweep, sa_exit>>
       ELSE IF TableEnds /\ sa_sweep = NumSweeps
       THEN sa_pc' = "exited" /\ sa_exit' = "0" /\ UNCHANGED sa_sweep
       ELSE IF TableEnds
       THEN sa_sweep' = sa_sweep + 1 /\ UNCHANGED <<sa_pc, sa_exit>>
       ELSE UNCHANGED <<sa_pc, sa_sweep, sa_exit>>
    /\ sa_fallback' = IF no_plots THEN FALSE ELSE fallback

\* A row of print_metrics_table for a case without ensemble directory.
SaRowNoDir ==
    /\ sa_pc = "table"
    /\ <<sa_sweep, sa_ci>> \notin ens_dirs
    /\ sa_reported' = sa_reported \cup {<<sa_sweep, sa_di, sa_ci>>}
    /\ AfterRow(sa_fallback)
    /\ UNCHANGED <<no_plots, ens_dirs, sa_malformed, sa_raised>>
    /\ UNCHANGED sa_nan_std
    /\ UNCHANGED nonSensVars

\* A row of print_metrics_table for a case whose ensemble is loaded: "(no data)"
\* or the metrics are printed.
SaRowLoad ==
    /\ sa_pc = "table"
    /\ <<sa_sweep, sa_ci>> \in ens_dirs
    /\ \E files \in Ensembles :
        /\ RowOutcome(files) \in {"no_data", "metrics"}
        /\ sa_malformed' = IF HasMalformedRun(files)
                           THEN sa_malformed \cup {<<sa_sweep, sa_ci>>} ELSE sa_malformed
        /\ AfterRow(sa_fallback \/ RowOutcome(files) = "no_data")
        /\ sa_nan_std' = (sa_nan_std \/ (RowOutcome(files) = "metrics"
                                          /\ StdIsNaN(LoadEnsemble(files).n_runs)))
    /\ sa_reported' = sa_reported \cup {<<sa_sweep, sa_di, sa_ci>>}
    /\ UNCHANGED <<no_plots, ens_dirs, sa_raised>>
    /\ UNCHANGED nonSensVars

\* load_ensemble raises inside print_metrics_table: nothing catches the
\* exception, the script ends with a traceback and status 1.
SaRowRaises ==
    /\ sa_pc = "table"
    /\ <<sa_sweep, sa_ci>> \in ens_dirs
    /\ \E files \in Ensembles :
        /\ RowOutcome(files) \notin {"no_data", "metrics"}
        /\ sa_raised' = RowOutcome(files)
        /\ sa_malformed' = IF HasMalformedRun(files)
                           THEN sa_malformed \cup {<<sa_sweep, sa_ci>>} ELSE sa_malformed
    /\ sa_pc' = "exited"
    /\ sa_exit' = "1"
    /\ UNCHANGED <<no_plots, ens_dirs, sa_sweep, sa_di, sa_ci, sa_reported, sa_fallback>>
    /\ UNCHANGED sa_nan_std
    /\ UNCHANGED nonSensVars

\* plot_timeseries_sweep and plot_summary_metrics of the sweep: they load the
\* ensembles the table has just loaded; then the next sweep, or "Done.".
SaPlots ==
    /\ sa_pc = "plots"
    /\ IF sa_sweep = NumSweeps
       THEN sa_pc' = "exited" /\ sa_exit' = "0" /\ UNCHANGED sa_sweep
       ELSE sa_pc' = "table" /\ sa_sweep' = sa_sweep + 1 /\ UNCHANGED sa_exit
    /\ sa_fallback' = FALSE
    /\ UNCHANGED <<no_plots, ens_dirs, sa_di, sa_ci, sa_reported, sa_malformed,
                   sa_raised>>
    /\ UNCHANGED sa_nan_std
    /\ UNCHANGED nonSensVars

\* plot_timeseries_sweep falls back on load_mean_std for an ensemble that gave
\* no data, and the mean file does not parse: the exception is not caught.
SaPlotsRaise ==
    /\ sa_pc = "plots"
    /\ sa_fallback
    /\ sa_raised' = "load_mean_std"
    /\ sa_pc' = "exited"
    /\ sa_exit' = "1"
    /\ UNCHANGED <<no_plots, ens_dirs, sa_sweep, sa_di, sa_ci, sa_reported,
                   sa_malformed, sa_fallback>>
    /\ UNCHANGED sa_nan_std
    /\ UNCHANGED nonSensVars

NextSens ==
    \/ SaStart
    \/ SaRowNoDir
    \/ SaRowLoad
    \/ SaRowRaises
    \/ SaPlots
    \/ SaPlotsRaise

SpecSens == InitSens /\ [][NextSens]_vars

(***************************************************************************)
(* analyze_sensitivity.py: load_ensemble and extract_metrics on the data.   *)
(* A loaded realization is kept as the columns extract_metrics reads: the   *)
(* day column, the row-wise sum of the infected columns and the D column.   *)
(* All numbers are integers, so sums and comparisons are exact; a mean is   *)
(* kept as its sum and count.                                               *)
(***************************************************************************)
\* the 14-day kernel of the moving average
Window == 14

\* A realization of n rows that starts at day d0, with the given infected
\* totals and a D column that grows by dr a day.
Realization(d0, inf, dr) ==
    [day |-> [i \in 1..Len(inf) |-> d0 + i - 1],
     infected |-> inf,
     deaths |-> [i \in 1..Len(inf) |-> dr * i]]

\* Curves of at most MaxDays days: every curve over 0..MaxInfected.
ShortCurves == UNION {[1..n -> 0..MaxInfected] : n \in 1..MaxDays}

\* Curves of about the length of the window: zero but for at most MaxSpikes
\* days of one infected.
LongCurves ==
    UNION {{[i \in 1..n |-> IF i \in S THEN 1 ELSE 0] :
               S \in {T \in SUBSET (1..n) : Cardinality(T) <= MaxSpikes}} :
           n \in {Window, Window + 1}}

\* The constant curve of n days.
ConstantCurve(n, c) == [i \in 1..n |-> c]

\* A single bump of n days with its maximum h at row p, h >= n.
BumpCurve(n, p, h) == [i \in 1..n |-> h - Abs(i - p)]

\* Lengths on both sides of the window
CurveLengths == {1, 3, Window - 1, Window, Window + 1, Window + 3}

\* The ensembles load_ensemble is given (the files that loaded): ragged short
\* ones, single long ones, constant ones and bumps, of 1..MaxRuns realizations.
ShortEnsembles ==
    UNION {[1..n -> {Realization(0, c, dr) : c \in ShortCurves}] :
           n \in 1..MaxRuns, dr \in {0, 1}}

LongEnsembles == {<<Realization(0, c, 1)>> : c \in LongCurves}

ConstantEnsembles ==
    {[r \in 1..n |-> Realization(d0, ConstantCurve(len, c), 1)] :
        n \in 1..MaxRuns, len \in CurveLengths, c \in 0..MaxInfected, d0 \in {0, 1}}

BumpEnsembles ==
    UNION {{[r \in 1..n |-> Realization(d0, BumpCurve(len, p, len + r), 1)] :
               n \in 1..MaxRuns, p \in 1..len, d0 \in {0, 1}} :
           len \in CurveLengths}

LoadedEnsembles ==
    ShortEnsembles \cup LongEnsembles \cup ConstantEnsembles \cup BumpEnsembles

\* min(d.shape[0] for d in all_data)
RECURSIVE MinLen(_)
MinLen(ad) ==
    IF Len(ad) = 1 THEN Len(ad[1].infected)
    ELSE LET m == MinLen(Tail(ad))
         IN IF Len(ad[1].infected) < m THEN Len(ad[1].infected) ELSE m

\* d[:n, :]
FirstRows(d, n) ==
    [day |-> SubSeq(d.day, 1, n),
     infected |-> SubSeq(d.infected, 1, n),
     deaths |-> SubSeq(d.deaths, 1, n)]

\* A mutant of Truncate: the realizations are stacked as they are.
NoTruncation(ad) == ad

\* np.stack([d[:min_rows, :] for d in all_data], axis=0)
Truncate(ad) == [r \in 1..Len(ad) |-> FirstRows(ad[r], MinLen(ad))]

\* np.argmax: the first position of the maximum
ArgMax(curve) ==
    CHOOSE i \in 1..Len(curve) :
        /\ curve[i] = MaxSeq(curve)
        /\ \A j \in 1..(i - 1) : curve[j] # MaxSeq(curve)

\* np.convolve(curve, np.ones(14) / 14, mode='same'), times 14: entry i is the
\* sum of the entries i-7 .. i+6 of the curve that exist.
ConvolveSame(curve) ==
    LET right == (Window - 1) \div 2
        left == Window - 1 - right
    IN [i \in 1..Len(curve) |->
          SumSeq([k \in 1..Len(curve) |->
                    IF k >= i - left /\ k <= i + right THEN curve[k] ELSE 0])]

\* A mutant of Smoothed: no curve is ever smoothed.
NeverSmoothed(curve) == curve

\* smoothed: the moving average if len(curve) > 14, else the curve itself
Smoothed(curve) ==
    IF Len(curve) > Window THEN ConvolveSame(curve) ELSE curve

\* A mutant of CountPeaks: an entry level with a neighbour counts as well.
CountPlateaus(sm) ==
    Cardinality({t \in 2..(Len(sm) - 1) :
                    /\ sm[t] >= sm[t - 1]
                    /\ sm[t] >= sm[t + 1]
                    /\ 100 * sm[t] > MaxSeq(sm)})

\* peaks: the interior entries above both neighbours and above 1% of the maximum
CountPeaks(sm) ==
    Cardinality({t \in 2..(Len(sm) - 1) :
                    /\ sm[t] > sm[t - 1]
                    /\ sm[t] > sm[t + 1]
                    /\ 100 * sm[t] > MaxSeq(sm)})

\* A mutant of WaveFloor: the number of peaks as counted.
NoFloor(peaks) == peaks

\* max(peaks, 1)
WaveFloor(peaks) == IF peaks > 1 THEN peaks ELSE 1

\* np.mean(xs), as sum and count
Mean(xs) == [sum |-> SumSeq(xs), n |-> Len(xs)]

\* np.std(xs, ddof=1): the square root of ss / (n * n * (n - 1)) with ss the sum
\* of the squares of n * x - sum; NaN when n - 1 is 0.
Std(xs) ==
    [nan |-> StdIsNaN(Len(xs)),
     ss |-> SumSeq([i \in 1..Len(xs) |->
                      (Len(xs) * xs[i] - SumSeq(xs)) * (Len(xs) * xs[i] - SumSeq(xs))]),
     n |-> Len(xs)]

PeakMags(st) == [r \in 1..Len(st) |-> MaxSeq(st[r].infected)]

\* A mutant of PeakDays: the row number of the peak instead of its day.
PeakRows(dy, st) == [r \in 1..Len(st) |-> ArgMax(st[r].infected)]

PeakDays(dy, st) == [r \in 1..Len(st) |-> dy[ArgMax(st[r].infected)]]

\* stacked[:, -1, COL_D]
CumDeaths(st) == [r \in 1..Len(st) |-> st[r].deaths[Len(st[r].deaths)]]

NWaves(st) == [r \in 1..Len(st) |-> WaveFloor(CountPeaks(Smoothed(st[r].infected)))]

\* The dict extract_metrics returns.
ExtractMetrics(dy, st) ==
    [peak_mag_mean |-> Mean(PeakMags(st)),
     peak_mag_std |-> Std(PeakMags(st)),
     peak_day_mean |-> Mean(PeakDays(dy, st)),
     peak_day_std |-> Std(PeakDays(dy, st)),
     cum_deaths_mean |-> Mean(CumDeaths(st)),
     cum_deaths_std |-> Std(CumDeaths(st)),
     n_waves_mean |-> Mean(NWaves(st)),
     n_waves_std |-> Std(NWaves(st))]

InitMetrics ==
    /\ em_all_data \in LoadedEnsembles
    /\ stacked = <<>>
    /\ days = <<>>
    /\ peak_mags = <<>>
    /\ peak_days = <<>>
    /\ n_waves = <<>>
    /\ em_metrics = <<>>
    /\ em_pc = "load"
    /\ IdleSweeps
    /\ IdleRegtest
    /\ IdleMap
    /\ IdlePlot
    /\ IdleNorms
    /\ IdleSens
    /\ IdleDirname
    /\ IdleCreate
    /\ IdleStatus
    /\ IdleConcurrent
    /\ IdleCompare
    /\ IdleSelect
    /\ IdleMain

\* load_ensemble from all_data on: the realizations are cut to the shortest and
\* stacked, and the day column of the first one is returned with the stack.
EmLoad ==
    /\ em_pc = "load"
    /\ stacked' = Truncate(em_all_data)
    /\ days' = Truncate(em_all_data)[1].day
    /\ em_pc' = "loaded"
    /\ UNCHANGED <<em_all_data, peak_mags, peak_days, n_waves, em_metrics>>
    /\ UNCHANGED nonMetricVars

\* extract_metrics(days, stacked)
EmExtract ==
    /\ em_pc = "loaded"
    /\ peak_mags' = PeakMags(stacked)
    /\ peak_days' = PeakDays(days, stacked)
    /\ n_waves' = NWaves(stacked)
    /\ em_metrics' = <<ExtractMetrics(days, stacked)>>
    /\ em_pc' = "extracted"
    /\ UNCHANGED <<em_all_data, stacked, days>>
    /\ UNCHANGED nonMetricVars

NextMetrics ==
    \/ EmLoad
    \/ EmExtract

SpecMetrics == InitMetrics /\ [][NextMetrics]_vars

(***************************************************************************)
(* medical_workers/plot_sweeps.py: parse_dirname.  A directory name is a    *)
(* sequence of characters; a float is kept as numerator and denominator.    *)
(***************************************************************************)
DigitChars == <<"0", "1", "2", "3", "4", "5", "6", "7", "8", "9">>

\* the digits the names of the model are written with
UsedDigits == {"0", "1", "2", "5"}

IsDigit(c) == \E d \in 1..Len(DigitChars) : DigitChars[d] = c

DigitValue(c) == (CHOOSE d \in 1..Len(DigitChars) : DigitChars[d] = c) - 1

\* int(ds) and float(ds) of a string of digits
RECURSIVE ToInt(_)
ToInt(ds) ==
    IF ds = <<>> THEN 0
    ELSE 10 * ToInt(SubSeq(ds, 1, Len(ds) - 1)) + DigitValue(ds[Len(ds)])

\* the abbreviations parse_dirname looks for, and the keys it stores under
Abbreviations ==
    [mwprop |-> <<"m", "w", "p", "r", "o", "p">>,
     nppd |-> <<"n", "p", "p", "d">>,
     xmitd2d |-> <<"x", "m", "i", "t", "d", "2", "d">>,
     xmitd2p |-> <<"x", "m", "i", "t", "d", "2", "p">>,
     xmitp2d |-> <<"x", "m", "i", "t", "p", "2", "d">>,
     xmitp2p |-> <<"x", "m", "i", "t", "p", "2", "p">>,
     baseline |-> <<"b", "a", "s", "e", "l", "i", "n", "e">>]

XmitTypes == {"xmitd2d", "xmitd2p", "xmitp2d", "xmitp2p"}

\* xmit_type.replace('xmit', 'xmit_hosp_')
XmitKey(t) ==
    CASE t = "xmitd2d" -> "xmit_hosp_d2d"
      [] t = "xmitd2p" -> "xmit_hosp_d2p"
      [] t = "xmitp2d" -> "xmit_hosp_p2d"
      [] t = "xmitp2p" -> "xmit_hosp_p2p"

\* the word w stands in s at position i
MatchAt(w, str, i) ==
    /\ i + Len(w) - 1 <= Len(str)
    /\ SubSeq(str, i, i + Len(w) - 1) = w

\* the number of digits that follow one another in s from position i on
RECURSIVE DigitRun(_, _)
DigitRun(str, i) ==
    IF i > Len(str) \/ ~IsDigit(str[i]) THEN 0 ELSE 1 + DigitRun(str, i + 1)

\* re.search(w(\d{n}), s): group 1 of the leftmost match, <<>> when no match
SearchDigits(w, str, n) ==
    LET hits == {i \in 1..Len(str) :
                    MatchAt(w, str, i) /\ DigitRun(str, i + Len(w)) >= n}
        first == CHOOSE i \in hits : \A j \in hits : i <= j
    IN IF hits = {} THEN <<>>
       ELSE SubSeq(str, first + Len(w), first + Len(w) + n - 1)

\* re.search(w(\d+), s): group 1 of the leftmost match, as many digits as follow
SearchAllDigits(w, str) ==
    LET hits == {i \in 1..Len(str) :
                    MatchAt(w, str, i) /\ DigitRun(str, i + Len(w)) >= 1}
        first == CHOOSE i \in hits : \A j \in hits : i <= j
    IN IF hits = {} THEN <<>>
       ELSE SubSeq(str, first + Len(w),
                   first + Len(w) + DigitRun(str, first + Len(w)) - 1)

\* 'baseline' in dirname
Contains(w, str) == \E i \in 1..Len(str) : MatchAt(w, str, i)

\* A mutant of Proportion: the digits are read as thousandths.
ProportionInThousandths(ds) == [num |-> ToInt(ds), den |-> 1000]

\* float(match.group(1)) / 100.0
Proportion(ds) == [num |-> ToInt(ds), den |-> 100]

\* float(match.group(1)) / 1000.0
Rate(ds) == [num |-> ToInt(ds), den |-> 1000]

\* The dict parse_dirname builds, as a function from the keys it has set; the
\* integer n is kept as n / 1 and True as 1 / 1.
ParseDirname(str) ==
    LET mw == SearchDigits(Abbreviations.mwprop, str, 3)
        np == SearchAllDigits(Abbreviations.nppd, str)
        xm == [t \in XmitTypes |-> SearchDigits(Abbreviations[t], str, 3)]
        keys == (IF mw # <<>> THEN {"med_workers_proportion"} ELSE {})
                  \cup (IF np # <<>> THEN {"num_patients_per_doctor"} ELSE {})
                  \cup {XmitKey(t) : t \in {u \in XmitTypes : xm[u] # <<>>}}
                  \cup (IF Contains(Abbreviations.baseline, str)
                        THEN {"is_baseline"} ELSE {})
    IN [k \in keys |->
          CASE k = "med_workers_proportion" -> Proportion(mw)
            [] k = "num_patients_per_doctor" -> [num |-> ToInt(np), den |-> 1]
            [] k = "is_baseline" -> [num |-> 1, den |-> 1]
            [] OTHER -> Rate(xm[CHOOSE t \in XmitTypes : XmitKey(t) = k])]

\* ".run_<study>.<case>.<machine>"
NamePrefix == <<".", "r", "u", "n", "_", "s", ".", "c", ".", "m">>

\* "." and the abbreviation and the digits, for every token in turn
RECURSIVE JoinTokens(_)
JoinTokens(ts) ==
    IF ts = <<>> THEN <<>>
    ELSE <<".">> \o Abbreviations[ts[1].abbrev] \o ts[1].digits \o JoinTokens(Tail(ts))

NumericAbbreviations == {"mwprop", "nppd"} \cup XmitTypes

DigitStrings == UNION {[1..n -> UsedDigits] : n \in 0..MaxDigits}

\* The names parse_dirname is given: the baseline's, the names with one
\* parameter and any digits, and the names with two parameters of three digits.
DirnameTokens ==
    {<<>>, <<[abbrev |-> "baseline", digits |-> <<>>]>>}
        \cup {<<[abbrev |-> a, digits |-> ds]>> :
                 a \in NumericAbbreviations, ds \in DigitStrings}
        \cup {<<[abbrev |-> a, digits |-> ds], [abbrev |-> b, digits |-> es]>> :
                 a \in NumericAbbreviations, b \in NumericAbbreviations,
                 ds \in [1..3 -> {"0", "5"}], es \in [1..3 -> {"0", "5"}]}

InitDirname ==
    /\ pd_tokens \in DirnameTokens
    /\ dirname = NamePrefix \o JoinTokens(pd_tokens)
    /\ pd_params = <<>>
    /\ pd_pc = "call"
    /\ IdleSweeps
    /\ IdleRegtest
    /\ IdleMap
    /\ IdlePlot
    /\ IdleNorms
    /\ IdleSens
    /\ IdleMetrics
    /\ IdleCreate
    /\ IdleStatus
    /\ IdleConcurrent
    /\ IdleCompare
    /\ IdleSelect
    /\ IdleMain

\* parse_dirname returns the dict it built.
PdReturnParams ==
    /\ pd_pc = "call"
    /\ DOMAIN ParseDirname(dirname) # {}
    /\ pd_params' = ParseDirname(dirname)
    /\ pd_pc' = "returned"
    /\ UNCHANGED <<pd_tokens, dirname>>
    /\ UNCHANGED nonDirnameVars

\* parse_dirname found nothing and returns None.
PdReturnNone ==
    /\ pd_pc = "call"
    /\ DOMAIN ParseDirname(dirname) = {}
    /\ pd_pc' = "returned_none"
    /\ UNCHANGED <<pd_tokens, dirname, pd_params>>
    /\ UNCHANGED nonDirnameVars

NextDirname ==
    \/ PdReturnParams
    \/ PdReturnNone

SpecDirname == InitDirname /\ [][NextDirname]_vars

(***************************************************************************)
(* sweeps.py: create_runs, _generate_parameter_combinations and             *)
(* _format_dirname.  A float parameter value is kept as its number of       *)
(* thousandths, a boolean as 0 or 1.                                        *)
(***************************************************************************)
FloatValue(k) == [type |-> "float", v |-> k]
IntValue(n) == [type |-> "int", v |-> n]
BoolValue(b) == [type |-> "bool", v |-> IF b THEN 1 ELSE 0]

\* str(n) of a non-negative integer
RECURSIVE IntToChars(_)
IntToChars(n) ==
    IF n < 10 THEN <<DigitChars[n + 1]>>
    ELSE Append(IntToChars(n \div 10), DigitChars[(n % 10) + 1])

\* f"{value:.3f}".replace('.', '') of the float k / 1000
ThreeDecimals(k) ==
    IntToChars(k \div 1000) \o <<DigitChars[((k \div 100) % 10) + 1],
                                 DigitChars[((k \div 10) % 10) + 1],
                                 DigitChars[(k % 10) + 1]>>

\* f"{value:03d}" if value < 1000 else str(value), of a non-negative integer
PaddedInt(n) ==
    IF n < 1000
    THEN <<DigitChars[((n \div 100) % 10) + 1],
           DigitChars[((n \div 10) % 10) + 1],
           DigitChars[(n % 10) + 1]>>
    ELSE IntToChars(n)

\* abbrev_map
AbbrevMap(key) ==
    CASE key = "med_workers_proportion" -> Abbreviations.mwprop
      [] key = "num_patients_per_doctor" -> Abbreviations.nppd
      [] key = "xmit_hosp_d2d" -> Abbreviations.xmitd2d
      [] key = "xmit_hosp_d2p" -> Abbreviations.xmitd2p
      [] key = "xmit_hosp_p2d" -> Abbreviations.xmitp2d
      [] key = "xmit_hosp_p2p" -> Abbreviations.xmitp2p
      [] key = "write_pltfiles" -> <<"p", "l", "t">>

\* param_str of _format_dirname: for every item of params in turn, nothing for
\* a boolean, else "." and the abbreviation and the formatted value.  The float
\* parameters of the studies are the proportion and the rates, which take the
\* three-decimals branch.
RECURSIVE ParamString(_)
ParamString(params) ==
    IF params = <<>> THEN <<>>
    ELSE LET key == params[1].key
             value == params[1].value
             rest == ParamString(Tail(params))
         IN IF value.type = "float"
            THEN <<".">> \o AbbrevMap(key) \o ThreeDecimals(value.v) \o rest
            ELSE IF value.type = "bool"
            THEN rest
            ELSE <<".">> \o AbbrevMap(key) \o PaddedInt(value.v) \o rest

\* _format_dirname
FormatDirname(params, is_baseline) ==
    IF is_baseline
    THEN NamePrefix \o <<".">> \o Abbreviations.baseline
    ELSE NamePrefix \o ParamString(params)

\* itertools.product(*param_values) zipped with the names: the dicts in the
\* order product yields them, the last parameter varying fastest.
RECURSIVE Combinations(_)
Combinations(parameters) ==
    IF parameters = <<>> THEN << <<>> >>
    ELSE LET n == Len(parameters)
             last == parameters[n]
             heads == Combinations(SubSeq(parameters, 1, n - 1))
             m == Len(last.values)
         IN [i \in 1..(Len(heads) * m) |->
                Append(heads[((i - 1) \div m) + 1],
                       [key |-> last.key, value |-> last.values[((i - 1) % m) + 1]])]

\* combinations as list_studies counts them
RECURSIVE CountCombinations(_)
CountCombinations(parameters) ==
    IF parameters = <<>> THEN 1
    ELSE Len(parameters[1].values) * CountCombinations(Tail(parameters))

\* The values the studies give their parameters.
FloatValues == {FloatValue(0), FloatValue(125), FloatValue(250)}
IntValues == {IntValue(5), IntValue(1000)}
BoolValues == {BoolValue(TRUE), BoolValue(FALSE)}

ValuesOf(key) ==
    IF key = "num_patients_per_doctor" THEN IntValues
    ELSE IF key = "write_pltfiles" THEN BoolValues
    ELSE FloatValues

StudyKeys ==
    {"med_workers_proportion", "num_patients_per_doctor", "xmit_hosp_d2d",
     "write_pltfiles"}

\* the lists of up to MaxValues different values
ValueLists(S) ==
    {l \in UNION {[1..n -> S] : n \in 1..MaxValues} :
        \A i, j \in 1..Len(l) : l[i] = l[j] => i = j}

\* A study's parameters: up to MaxParams different keys, each with its values.
ParameterDicts ==
    {ps \in UNION {[1..n -> UNION {[key : {k}, values : ValueLists(ValuesOf(k))] :
                                      k \in StudyKeys}] : n \in 0..MaxParams} :
        \A i, j \in 1..Len(ps) : ps[i].key = ps[j].key => i = j}

BaselineName == FormatDirname(<<>>, TRUE)

InitCreate ==
    /\ study_config \in [parameters : ParameterDicts, baseline : BOOLEAN]
    /\ study_known \in BOOLEAN
    /\ case_available \in BOOLEAN
    /\ common_exists \in BOOLEAN
    /\ exec_found \in BOOLEAN
    /\ cr_dirs = {}
    /\ cr_scripts = {}
    /\ combinations = <<>>
    /\ cr_idx = 1
    /\ created_count = 0
    /\ skipped_count = 0
    /\ cr_fresh = TRUE
    /\ cr_pc = "start"
    /\ cr_ret = "none"
    /\ IdleSweeps
    /\ IdleRegtest
    /\ IdleMap
    /\ IdlePlot
    /\ IdleNorms
    /\ IdleSens
    /\ IdleMetrics
    /\ IdleDirname
    /\ IdleStatus
    /\ IdleConcurrent
    /\ IdleCompare
    /\ IdleSelect
    /\ IdleMain

\* create_runs up to the baseline: the three checks that return False.
CrCheck ==
    /\ cr_pc = "start"
    /\ IF study_known /\ case_available /\ common_exists
       THEN cr_pc' = "baseline" /\ cr_ret' = cr_ret
       ELSE cr_pc' = "returned" /\ cr_ret' = "False"
    /\ UNCHANGED <<study_config, study_known, case_available, common_exists,
                   exec_found, cr_dirs, cr_scripts, combinations, cr_idx,
                   created_count, skipped_count, cr_fresh>>
    /\ UNCHANGED nonCreateVars

\* The baseline run, if the study has one: an existing directory is left as it
\* is; else mkdir, the links, and _create_run_script, which raises
\* FileNotFoundError when it finds no executable.  Then the combinations.
CrBaseline ==
    /\ cr_pc = "baseline"
    /\ IF study_config.baseline /\ BaselineName \notin cr_dirs
       THEN /\ cr_dirs' = cr_dirs \cup {BaselineName}
            /\ IF exec_found
               THEN /\ cr_scripts' = cr_scripts \cup {BaselineName}
                    /\ cr_pc' = "loop"
                    /\ cr_ret' = cr_ret
                    /\ combinations' = Combinations(study_config.parameters)
               ELSE /\ cr_pc' = "returned"
                    /\ cr_ret' = "raised"
                    /\ UNCHANGED <<cr_scripts, combinations>>
       ELSE /\ cr_pc' = "loop"
            /\ combinations' = Combinations(study_config.parameters)
            /\ UNCHANGED <<cr_dirs, cr_scripts, cr_ret>>
    /\ cr_idx' = 1
    /\ created_count' = 0
    /\ skipped_count' = 0
    /\ UNCHANGED <<study_config, study_known, case_available, common_exists,
                   exec_found, cr_fresh>>
    /\ UNCHANGED nonCreateVars

\* One iteration of the loop over combinations.
CrCombination ==
    /\ cr_pc = "loop"
    /\ cr_idx <= Len(combinations)
    /\ LET name == FormatDirname(combinations[cr_idx], FALSE)
       IN IF name \in cr_dirs
          THEN /\ skipped_count' = skipped_count + 1
               /\ cr_idx' = cr_idx + 1
               /\ UNCHANGED <<cr_dirs, cr_scripts, created_count, cr_pc, cr_ret>>
          ELSE /\ cr_dirs' = cr_dirs \cup {name}
               /\ created_count' = created_count + 1
               /\ skipped_count' = skipped_count
               /\ IF exec_found
                  THEN /\ cr_scripts' = cr_scripts \cup {name}
                       /\ cr_idx' = cr_idx + 1
                       /\ UNCHANGED <<cr_pc, cr_ret>>
                  ELSE /\ cr_pc' = "returned"
                       /\ cr_ret' = "raised"
                       /\ UNCHANGED <<cr_scripts, cr_idx>>
    /\ UNCHANGED <<study_config, study_known, case_available, common_exists,
                   exec_found, combinations, cr_fresh>>
    /\ UNCHANGED nonCreateVars

\* The loop is over: the counts are printed and create_runs returns True.
CrReturn ==
    /\ cr_pc = "loop"
    /\ cr_idx > Len(combinations)
    /\ cr_pc' = "returned"
    /\ cr_ret' = "True"
    /\ UNCHANGED <<study_config, study_known, case_available, common_exists,
                   exec_found, cr_dirs, cr_scripts, combinations, cr_idx,
                   created_count, skipped_count, cr_fresh>>
    /\ UNCHANGED nonCreateVars

\* The user invokes "sweeps.py create" again for the same study, case and
\* machine; the simulator may have been built or removed in between.
CrReinvoke ==
    /\ cr_pc = "returned"
    /\ study_known /\ case_available /\ common_exists
    /\ exec_found' \in BOOLEAN
    /\ cr_fresh' = (cr_dirs = {})
    /\ cr_pc' = "start"
    /\ cr_ret' = "none"
    /\ combinations' = <<>>
    /\ cr_idx' = 1
    /\ created_count' = 0
    /\ skipped_count' = 0
    /\ UNCHANGED <<study_config, study_known, case_available, common_exists,
                   cr_dirs, cr_scripts>>
    /\ UNCHANGED nonCreateVars

NextCreate ==
    \/ CrCheck
    \/ CrBaseline
    \/ CrCombination
    \/ CrReturn
    \/ CrReinvoke

SpecCreate == InitCreate /\ [][NextCreate]_vars

(***************************************************************************)
(* sweeps.py: check_status, and the glob pattern it shares with run_sweeps  *)
(* and find_run_directories.  A run directory is known by the machine and   *)
(* the parameter value create_runs made it for.                             *)
(***************************************************************************)
Linux == <<"l", "i", "n", "u", "x">>
LinuxGpu == Linux \o <<"-", "g", "p", "u">>
Dane == <<"d", "a", "n", "e">>

\* the machines of machines.yaml that the model runs on
MachineNames == {Linux, LinuxGpu, Dane}

\* ".run_<study>.<case>."
RunPrefix == SubSeq(NamePrefix, 1, Len(NamePrefix) - 1)

\* The name _format_dirname gives the run of num_patients_per_doctor = n on
\* machine m.
RunName(m, n) ==
    RunPrefix \o m
        \o ParamString(<<[key |-> "num_patients_per_doctor", value |-> IntValue(n)]>>)

\* the run directories a study directory may hold
RunDirectories == [machine : MachineNames, nppd : 1..NumStatusRuns]

\* pattern = f".run_{study_name}.{case}.{machine}*"
Pattern(m) == RunPrefix \o m

\* A mutant of GlobMatches: the machine name must end where the pattern's does.
GlobMatchesWholeMachine(pat, name) ==
    /\ MatchAt(pat, name, 1)
    /\ (Len(name) = Len(pat) \/ name[Len(pat) + 1] = ".")

\* Path.glob with a pattern that ends in "*": the name begins with the rest.
GlobMatches(pat, name) == MatchAt(pat, name, 1)

\* the matching run directories, in the order the loop takes them
RECURSIVE InSomeOrder(_)
InSomeOrder(S) ==
    IF S = {} THEN <<>>
    ELSE LET d == CHOOSE x \in S : TRUE
         IN <<d>> \o InSomeOrder(S \ {d})

\* sorted(study_dir.glob(pattern)); the counters do not depend on the order
Glob(created, m) ==
    InSomeOrder({d \in created : GlobMatches(Pattern(m), RunName(d.machine, d.nppd))})

\* What out.<m>.log is in run directory d: the run script of d tees into
\* out.<d.machine>.log, so a log of another name is never there.
LogsIn(d, m) == IF d.machine = m THEN Logs ELSE {NoLog}

\* A mutant of StatusOf: an empty log counts as not started.
StatusOfNonEmpty(log) ==
    IF log.st = "absent" THEN "not_started"
    ELSE IF log.st = "unreadable" THEN "failed"
    ELSE IF log.lines = <<>> THEN "not_started"
    ELSE IF HasSentinel(log.lines[Len(log.lines)]) THEN "completed"
    ELSE "running"

\* The branch of the loop body a log takes.
StatusOf(log) ==
    IF log.st = "absent" THEN "not_started"
    ELSE IF log.st = "unreadable" THEN "failed"
    ELSE IF log.lines # <<>> /\ HasSentinel(log.lines[Len(log.lines)]) THEN "completed"
    ELSE "running"

InitStatus ==
    /\ cs_created \in SUBSET RunDirectories
    /\ cs_machine \in MachineNames
    /\ cs_known \in BOOLEAN
    /\ cs_pc = "start"
    /\ cs_run_dirs = <<>>
    /\ cs_idx = 1
    /\ cs_log = <<>>
    /\ cs_completed = 0
    /\ cs_failed = 0
    /\ cs_running = 0
    /\ cs_not_started = 0
    /\ cs_total = 0
    /\ cs_ret = "none"
    /\ IdleSweeps
    /\ IdleRegtest
    /\ IdleMap
    /\ IdlePlot
    /\ IdleNorms
    /\ IdleSens
    /\ IdleMetrics
    /\ IdleDirname
    /\ IdleCreate
    /\ IdleConcurrent
    /\ IdleCompare
    /\ IdleSelect
    /\ IdleMain

\* check_status up to its loop: the unknown study, the glob, no run directory.
CsGlob ==
    /\ cs_pc = "start"
    /\ IF ~cs_known
       THEN /\ cs_pc' = "returned"
            /\ cs_ret' = "False"
            /\ UNCHANGED cs_run_dirs
       ELSE /\ cs_run_dirs' = Glob(cs_created, cs_machine)
            /\ IF cs_run_dirs' = <<>>
               THEN cs_pc' = "returned" /\ cs_ret' = "False"
               ELSE cs_pc' = "loop" /\ cs_ret' = cs_ret
    /\ UNCHANGED <<cs_created, cs_machine, cs_known, cs_idx, cs_log, cs_completed,
                   cs_failed, cs_running, cs_not_started, cs_total>>
    /\ UNCHANGED nonStatusVars

\* One iteration of the loop: the log of the run directory is looked at and one
\* counter goes up.
CsClassify ==
    /\ cs_pc = "loop"
    /\ cs_idx <= Len(cs_run_dirs)
    /\ \E log \in LogsIn(cs_run_dirs[cs_idx], cs_machine) :
          LET st == StatusOf(log)
          IN /\ cs_log' = log
             /\ cs_not_started' = cs_not_started + (IF st = "not_started" THEN 1 ELSE 0)
             /\ cs_completed' = cs_completed + (IF st = "completed" THEN 1 ELSE 0)
             /\ cs_running' = cs_running + (IF st = "running" THEN 1 ELSE 0)
             /\ cs_failed' = cs_failed + (IF st = "failed" THEN 1 ELSE 0)
    /\ cs_idx' = cs_idx + 1
    /\ UNCHANGED <<cs_created, cs_machine, cs_known, cs_pc, cs_run_dirs, cs_total,
                   cs_ret>>
    /\ UNCHANGED nonStatusVars

\* The loop is over: total = len(run_dirs), the report, return True.
CsReport ==
    /\ cs_pc = "loop"
    /\ cs_idx > Len(cs_run_dirs)
    /\ cs_total' = Len(cs_run_dirs)
    /\ cs_pc' = "returned"
    /\ cs_ret' = "True"
    /\ UNCHANGED <<cs_created, cs_machine, cs_known, cs_run_dirs, cs_idx, cs_log,
                   cs_completed, cs_failed, cs_running, cs_not_started>>
    /\ UNCHANGED nonStatusVars

NextStatus ==
    \/ CsGlob
    \/ CsClassify
    \/ CsReport

SpecStatus == InitStatus /\ [][NextStatus]_vars

(***************************************************************************)
(* sweeps.py: run_sweeps run directly by several invocations of the script  *)
(* on the same study, case and machine.  Every run directory holds its run  *)
(* script; the invocations share nothing but the filesystem.                *)
(***************************************************************************)
Invocations == 1..NumInvocations
SharedDirs == 1..NumSharedDirs

\* the log of a run that has started: the run script has removed the old log
\* and tee has opened the new one, the simulator has written some steps
StartedLog == LogOf(<<StepLine>>)

\* The jobs_to_run of the completion scan over the logs as they are now.
ScanJobs(logs) ==
    LET IsJob(d) == ~AlreadyDone([dir |-> TRUE, log |-> logs[d], script |-> TRUE])
    IN SelectSeq([d \in SharedDirs |-> d], IsJob)

InitConcurrent ==
    /\ cc_fs \in [SharedDirs -> {NoLog, LogOf(<<StepLine, FinalLine>>)}]
    /\ cc_max_parallel \in [Invocations -> 1..MaxParallel]
    /\ cc_pc = [i \in Invocations |-> "start"]
    /\ cc_jobs_to_run = [i \in Invocations |-> <<>>]
    /\ cc_idx = [i \in Invocations |-> 1]
    /\ cc_running_jobs = [i \in Invocations |-> <<>>]
    /\ cc_widx = [i \in Invocations |-> 1]
    /\ cc_procs = [i \in Invocations |-> [d \in SharedDirs |-> "none"]]
    /\ cc_launched = [i \in Invocations |-> [d \in SharedDirs |-> 0]]
    /\ cc_seen_running = [i \in Invocations |-> {}]
    /\ IdleSweeps
    /\ IdleRegtest
    /\ IdleMap
    /\ IdlePlot
    /\ IdleNorms
    /\ IdleSens
    /\ IdleMetrics
    /\ IdleDirname
    /\ IdleCreate
    /\ IdleStatus
    /\ IdleCompare
    /\ IdleSelect
    /\ IdleMain

\* Invocation i: glob and completion scan; nothing to run returns True.
CcScan(i) ==
    /\ cc_pc[i] = "start"
    /\ LET jobs == ScanJobs(cc_fs)
       IN /\ cc_jobs_to_run' = [cc_jobs_to_run EXCEPT ![i] = jobs]
          /\ cc_pc' = [cc_pc EXCEPT ![i] = IF jobs = <<>> THEN "returned" ELSE "loop"]
    /\ cc_seen_running' =
           [cc_seen_running EXCEPT
               ![i] = {d \in SharedDirs : \E j \in Invocations : cc_procs[j][d] = "running"}]
    /\ UNCHANGED <<cc_fs, cc_max_parallel, cc_idx, cc_running_jobs, cc_widx, cc_procs,
                   cc_launched>>
    /\ UNCHANGED nonConcurrentVars

\* Invocation i: one iteration of the launch loop: Popen of the run script,
\* append, and the test for a full batch.
CcLaunchJob(i) ==
    /\ cc_pc[i] = "loop"
    /\ cc_idx[i] <= Len(cc_jobs_to_run[i])
    /\ LET d == cc_jobs_to_run[i][cc_idx[i]]
           rj == Append(cc_running_jobs[i], d)
       IN /\ cc_procs' = [cc_procs EXCEPT ![i][d] = "started"]
          /\ cc_launched' = [cc_launched EXCEPT ![i][d] = @ + 1]
          /\ cc_running_jobs' = [cc_running_jobs EXCEPT ![i] = rj]
          /\ IF MaxParallelReached(rj, cc_max_parallel[i])
             THEN /\ cc_pc' = [cc_pc EXCEPT ![i] = "wait"]
                  /\ cc_widx' = [cc_widx EXCEPT ![i] = 1]
             ELSE UNCHANGED <<cc_pc, cc_widx>>
    /\ cc_idx' = [cc_idx EXCEPT ![i] = @ + 1]
    /\ UNCHANGED <<cc_fs, cc_max_parallel, cc_jobs_to_run, cc_seen_running>>
    /\ UNCHANGED nonConcurrentVars

\* Invocation i: proc.wait() returns for the next handle of the batch (pc
\* "wait") or of the final wait (pc "final_wait").
CcWait(i) ==
    /\ cc_pc[i] \in {"wait", "final_wait"}
    /\ LET ws == JobsToWaitFor(cc_running_jobs[i])
           d == ws[cc_widx[i]]
       IN /\ cc_procs[i][d] = "exited"
          /\ cc_procs' = [cc_procs EXCEPT ![i][d] = "reaped"]
          /\ IF cc_widx[i] = Len(ws)
             THEN /\ cc_widx' = [cc_widx EXCEPT ![i] = 1]
                  /\ IF cc_pc[i] = "wait"
                     THEN /\ cc_running_jobs' = [cc_running_jobs EXCEPT ![i] = <<>>]
                          /\ cc_pc' = [cc_pc EXCEPT ![i] = "loop"]
                     ELSE /\ cc_pc' = [cc_pc EXCEPT ![i] = "returned"]
                          /\ UNCHANGED cc_running_jobs
             ELSE /\ cc_widx' = [cc_widx EXCEPT ![i] = @ + 1]
                  /\ UNCHANGED <<cc_pc, cc_running_jobs>>
    /\ UNCHANGED <<cc_fs, cc_max_parallel, cc_jobs_to_run, cc_idx, cc_launched,
                   cc_seen_running>>
    /\ UNCHANGED nonConcurrentVars

\* Invocation i: the launch loop is over.
CcEndLoop(i) ==
    /\ cc_pc[i] = "loop"
    /\ cc_idx[i] > Len(cc_jobs_to_run[i])
    /\ IF cc_running_jobs[i] # <<>>
       THEN /\ cc_pc' = [cc_pc EXCEPT ![i] = "final_wait"]
            /\ cc_widx' = [cc_widx EXCEPT ![i] = 1]
       ELSE /\ cc_pc' = [cc_pc EXCEPT ![i] = "returned"]
            /\ UNCHANGED cc_widx
    /\ UNCHANGED <<cc_fs, cc_max_parallel, cc_jobs_to_run, cc_idx, cc_running_jobs,
                   cc_procs, cc_launched, cc_seen_running>>
    /\ UNCHANGED nonConcurrentVars

\* A run script launched by invocation i begins: it removes the old log, and
\* the simulator's first output is in the new one.
CcProcBegin(i, d) ==
    /\ cc_procs[i][d] = "started"
    /\ cc_procs' = [cc_procs EXCEPT ![i][d] = "running"]
    /\ cc_fs' = [cc_fs EXCEPT ![d] = StartedLog]
    /\ UNCHANGED <<cc_max_parallel, cc_pc, cc_jobs_to_run, cc_idx, cc_running_jobs,
                   cc_widx, cc_launched, cc_seen_running>>
    /\ UNCHANGED nonConcurrentVars

\* A run script launched by invocation i ends, its log complete or not.
CcProcExit(i, d) ==
    /\ cc_procs[i][d] = "running"
    /\ \E l \in ExitLogs : cc_fs' = [cc_fs EXCEPT ![d] = l]
    /\ cc_procs' = [cc_procs EXCEPT ![i][d] = "exited"]
    /\ UNCHANGED <<cc_max_parallel, cc_pc, cc_jobs_to_run, cc_idx, cc_running_jobs,
                   cc_widx, cc_launched, cc_seen_running>>
    /\ UNCHANGED nonConcurrentVars

NextConcurrent ==
    \/ \E i \in Invocations : CcScan(i)
    \/ \E i \in Invocations : CcLaunchJob(i)
    \/ \E i \in Invocations : CcWait(i)
    \/ \E i \in Invocations : CcEndLoop(i)
    \/ \E i \in Invocations, d \in SharedDirs : CcProcBegin(i, d)
    \/ \E i \in Invocations, d \in SharedDirs : CcProcExit(i, d)

SpecConcurrent == InitConcurrent /\ [][NextConcurrent]_vars

(***************************************************************************)
(* regtest.py: compare_results.                                             *)
(***************************************************************************)
\* What the loop finds for one baseline directory: the test directory of the
\* same name, its .disabled marker, and "fail" in the output of chkdiff.sh.
ComparedTestDirs == [exists : BOOLEAN, disabled : BOOLEAN, fail : BOOLEAN]

\* The branch of the loop body: "continue" without a count when the test
\* directory does not exist, else the counter that goes up.
CompareOutcome(tdir) ==
    IF ~tdir.exists THEN "continue"
    ELSE IF tdir.disabled THEN "skipped"
    ELSE IF tdir.fail THEN "failed"
    ELSE "passed"

InitCompare ==
    /\ cmp_machine \in BOOLEAN
    /\ cmp_baseline_root \in BOOLEAN
    /\ cmp_test_root \in BOOLEAN
    /\ cmp_chkdiff \in BOOLEAN
    /\ \E n \in 0..NumTestDirs : baseline_dirs = [i \in 1..n |-> i]
    /\ cmp_pc = "start"
    /\ cmp_idx = 1
    /\ cmp_passed = 0
    /\ cmp_failed = 0
    /\ cmp_skipped = 0
    /\ cmp_exit = "none"
    /\ IdleSweeps
    /\ IdleRegtest
    /\ IdleMap
    /\ IdlePlot
    /\ IdleNorms
    /\ IdleSens
    /\ IdleMetrics
    /\ IdleDirname
    /\ IdleCreate
    /\ IdleStatus
    /\ IdleConcurrent
    /\ IdleSelect
    /\ IdleMain

\* compare_results up to its loop: sys.exit(1) without a machine, baselines/,
\* tests/ or chkdiff.sh; a plain return when no baseline directory matches.
CmpStart ==
    /\ cmp_pc = "start"
    /\ IF ~cmp_machine \/ ~cmp_baseline_root \/ ~cmp_test_root \/ ~cmp_chkdiff
       THEN cmp_pc' = "done" /\ cmp_exit' = "1"
       ELSE IF baseline_dirs = <<>>
            THEN cmp_pc' = "done" /\ cmp_exit' = "returned"
            ELSE cmp_pc' = "loop" /\ cmp_exit' = cmp_exit
    /\ UNCHANGED <<cmp_machine, cmp_baseline_root, cmp_test_root, cmp_chkdiff,
                   baseline_dirs, cmp_idx, cmp_passed, cmp_failed, cmp_skipped>>
    /\ UNCHANGED nonCompareVars

\* One iteration of the loop over baseline_dirs.
CmpCase ==
    /\ cmp_pc = "loop"
    /\ cmp_idx <= Len(baseline_dirs)
    /\ \E tdir \in ComparedTestDirs :
          LET todo == CompareOutcome(tdir)
          IN /\ cmp_skipped' = cmp_skipped + (IF todo = "skipped" THEN 1 ELSE 0)
             /\ cmp_failed' = cmp_failed + (IF todo = "failed" THEN 1 ELSE 0)
             /\ cmp_passed' = cmp_passed + (IF todo = "passed" THEN 1 ELSE 0)
    /\ cmp_idx' = cmp_idx + 1
    /\ UNCHANGED <<cmp_machine, cmp_baseline_root, cmp_test_root, cmp_chkdiff,
                   baseline_dirs, cmp_pc, cmp_exit>>
    /\ UNCHANGED nonCompareVars

\* The loop is over: the results line is printed and compare_results returns.
CmpResults ==
    /\ cmp_pc = "loop"
    /\ cmp_idx > Len(baseline_dirs)
    /\ cmp_pc' = "done"
    /\ cmp_exit' = "returned"
    /\ UNCHANGED <<cmp_machine, cmp_baseline_root, cmp_test_root, cmp_chkdiff,
                   baseline_dirs, cmp_idx, cmp_passed, cmp_failed, cmp_skipped>>
    /\ UNCHANGED nonCompareVars

NextCompare ==
    \/ CmpStart
    \/ CmpCase
    \/ CmpResults

SpecCompare == InitCompare /\ [][NextCompare]_vars

(***************************************************************************)
(* scripts/plot_infections_map.py: find_run_directories and main's choice   *)
(* of the run directory of a case given with -c.  A name is kept as the     *)
(* list of its parts between "_", so that split("_") and "_".join are the   *)
(* identity on it.                                                          *)
(***************************************************************************)
Platforms == {"linux", "perlmutter"}

\* the cases of the project: one of a single part, one of two parts
CaseNames == {<<"CA">>, <<"bay", "area">>}

\* name_parts of ".run_<case_name>_<platform>"
RunDirParts == {c \o <<p>> : c \in CaseNames, p \in Platforms}

\* dir_platform = name_parts[-1] if len(name_parts) > 1 else "unknown"
DirPlatform(name_parts) ==
    IF Len(name_parts) > 1 THEN name_parts[Len(name_parts)] ELSE "unknown"

\* case_name = "_".join(name_parts[:-1]) if len(name_parts) > 1 else basename[5:]
DirCaseName(name_parts) ==
    IF Len(name_parts) > 1 THEN SubSeq(name_parts, 1, Len(name_parts) - 1)
    ELSE name_parts

\* find_run_directories(platform), "" standing for None: the directories with
\* cases* files, of the platform if one is given, as (case_name, dir_platform).
FindRunDirectories(disk, plat) ==
    {[cn |-> DirCaseName(d.parts), dp |-> DirPlatform(d.parts)] :
        d \in {e \in disk : /\ e.has_cases
                            /\ (plat # "" => DirPlatform(e.parts) = plat)}}

\* "_" in case_spec
HasUnderscore(spec) == Len(spec) > 1

\* The run directories the loop of main may stop at for case_spec.  The list
\* is sorted by case name only, and the directories that match share their
\* case name, so the first match is whichever the directory listing put first.
Matches(disk, plat, spec) ==
    IF HasUnderscore(spec)
    THEN {r \in FindRunDirectories(disk, "") : r.cn \o <<r.dp>> = spec \/ r.cn = spec}
    ELSE {r \in FindRunDirectories(disk, plat) : r.cn = spec}

InitSelect ==
    /\ sel_disk \in SUBSET [parts : RunDirParts, has_cases : BOOLEAN]
    /\ \A d, e \in sel_disk : d.parts = e.parts => d = e
    /\ sel_platform \in Platforms
    /\ case_spec \in CaseNames \cup RunDirParts
    /\ sel_cases_to_plot = <<>>
    /\ sel_pc = "start"
    /\ sel_exit = "none"
    /\ IdleSweeps
    /\ IdleRegtest
    /\ IdleMap
    /\ IdlePlot
    /\ IdleNorms
    /\ IdleSens
    /\ IdleMetrics
    /\ IdleDirname
    /\ IdleCreate
    /\ IdleStatus
    /\ IdleConcurrent
    /\ IdleCompare
    /\ IdleMain

\* The loop body for case_spec finds a run directory and appends it.
SelFound ==
    /\ sel_pc = "start"
    /\ \E r \in Matches(sel_disk, sel_platform, case_spec) :
          sel_cases_to_plot' = Append(sel_cases_to_plot, r)
    /\ sel_pc' = "selected"
    /\ UNCHANGED <<sel_disk, sel_platform, case_spec, sel_exit>>
    /\ UNCHANGED nonSelectVars

\* The loop body finds none: "ERROR: Case not found" and sys.exit(1).
SelNotFound ==
    /\ sel_pc = "start"
    /\ Matches(sel_disk, sel_platform, case_spec) = {}
    /\ sel_pc' = "exited"
    /\ sel_exit' = "1"
    /\ UNCHANGED <<sel_disk, sel_platform, case_spec, sel_cases_to_plot>>
    /\ UNCHANGED nonSelectVars

NextSelect ==
    \/ SelFound
    \/ SelNotFound

SpecSelect == InitSelect /\ [][NextSelect]_vars

(***************************************************************************)
(* regtest.py and sweeps.py: main.  Both command lines dispatch on         *)
(* args.action; the informational actions return first, then the          *)
(* environment is validated, then the action's method is called.           *)
(***************************************************************************)
Regtest == "regtest"
Sweeps == "sweeps"

\* choices= of the action argument of each parser.
Actions(script) ==
    IF script = Regtest
    THEN {"validate", "list-cases", "list-machines", "plot", "create-baseline",
          "run-baseline", "create-test", "run-test", "compare"}
    ELSE {"validate", "list-studies", "list-machines", "create", "run",
          "status", "plot"}

\* The first if/elif chain of main: these return before anything else.
InfoActions == {"validate", "list-cases", "list-studies", "list-machines"}

\* The environment: EXAEPI_BUILD set and a build (regtest) or the path
\* (sweeps) found, EXAEPI_DIR set and chkdiff.sh (regtest) or the path
\* (sweeps) found, the common directory present.
Environments ==
    [build_set : BOOLEAN, build_found : BOOLEAN, dir_set : BOOLEAN,
     dir_found : BOOLEAN, common_exists : BOOLEAN]

\* import yaml failing ends the process before main is entered.
YAML_AVAILABLE == TRUE

\* validate_environment of the two orchestrators.
ValidateEnvironment(script, env) ==
    IF script = Regtest
    THEN /\ env.build_set /\ env.build_found
         /\ env.dir_set /\ env.dir_found
         /\ env.common_exists
    ELSE /\ env.build_set /\ env.build_found
         /\ env.dir_set /\ env.dir_found
         /\ YAML_AVAILABLE

BoolString(b) == IF b THEN "True" ELSE "False"

\* The action main runs before validating: a plot action anywhere.
ExemptPlotAnywhere(script, action) == action = "plot"

\* The action main runs before validating: regtest's plot only.
ExemptFromValidation(script, action) == script = Regtest /\ action = "plot"

\* The method the action dispatches to.
Method(script, action) ==
    IF script = Regtest
    THEN CASE action = "plot" -> "generate_plots"
           [] action = "create-baseline" -> "create_baselines"
           [] action = "run-baseline" -> "run_baselines"
           [] action = "create-test" -> "create_tests"
           [] action = "run-test" -> "run_tests"
           [] OTHER -> "compare_results"
    ELSE CASE action = "create" -> "create_runs"
           [] action = "run" -> "run_sweeps"
           [] action = "status" -> "check_status"
           [] OTHER -> "generate_plots"

\* Methods that make directories, and methods that start subprocesses.
CreatingMethods == {"create_baselines", "create_tests", "create_runs"}
LaunchingMethods ==
    {"run_baselines", "run_tests", "run_sweeps", "compare_results", "generate_plots"}

InitMain ==
    /\ mn_script \in {Regtest, Sweeps}
    /\ mn_action \in Actions(mn_script)
    /\ mn_env \in Environments
    /\ mn_study \in BOOLEAN
    /\ mn_case \in BOOLEAN
    /\ mn_script = Regtest => mn_study /\ mn_case
    /\ mn_machine \in {"current", Linux}
    /\ mn_detected \in {"", Linux}
    /\ mn_pc = "start"
    /\ mn_valid = "none"
    /\ mn_performed = "none"
    /\ mn_created = FALSE
    /\ mn_launched = FALSE
    /\ mn_exit = "none"
    /\ IdleSweeps
    /\ IdleRegtest
    /\ IdleMap
    /\ IdlePlot
    /\ IdleNorms
    /\ IdleSens
    /\ IdleMetrics
    /\ IdleDirname
    /\ IdleCreate
    /\ IdleStatus
    /\ IdleConcurrent
    /\ IdleCompare
    /\ IdleSelect

\* validate, list-cases, list-studies, list-machines: report and return.
MainInfo ==
    /\ mn_pc = "start"
    /\ mn_action \in InfoActions
    /\ IF mn_action = "validate"
       THEN /\ mn_valid' = BoolString(ValidateEnvironment(mn_script, mn_env))
            /\ mn_exit' = IF ValidateEnvironment(mn_script, mn_env) THEN "0" ELSE "1"
            /\ UNCHANGED mn_performed
       ELSE /\ mn_performed' = "list"
            /\ mn_exit' = "0"
            /\ UNCHANGED mn_valid
    /\ mn_pc' = "exited"
    /\ UNCHANGED <<mn_script, mn_action, mn_env, mn_study, mn_case, mn_machine,
                   mn_detected, mn_created, mn_launched>>
    /\ UNCHANGED nonMainVars

\* sweeps: --study and --case are required and the machine must resolve,
\* else return 1.  regtest: "current" becomes None, nothing is required.
MainResolve ==
    /\ mn_pc = "start"
    /\ mn_action \notin InfoActions
    /\ IF /\ mn_script = Sweeps
          /\ \/ ~mn_study
             \/ ~mn_case
             \/ (mn_machine = "current" /\ mn_detected = "")
       THEN mn_pc' = "exited" /\ mn_exit' = "1"
       ELSE mn_pc' = "resolved" /\ UNCHANGED mn_exit
    /\ UNCHANGED <<mn_script, mn_action, mn_env, mn_study, mn_case, mn_machine,
                   mn_detected, mn_valid, mn_performed, mn_created, mn_launched>>
    /\ UNCHANGED nonMainVars

\* regtest plot: generate_plots is called without validation, return 0.
MainPlotExempt ==
    /\ mn_pc = "resolved"
    /\ ExemptFromValidation(mn_script, mn_action)
    /\ mn_performed' = Method(mn_script, mn_action)
    /\ mn_launched' \in BOOLEAN
    /\ mn_pc' = "exited"
    /\ mn_exit' = "0"
    /\ UNCHANGED <<mn_script, mn_action, mn_env, mn_study, mn_case, mn_machine,
                   mn_detected, mn_valid, mn_created>>
    /\ UNCHANGED nonMainVars

\* if not orch.validate_environment(...): return 1
MainValidate ==
    /\ mn_pc = "resolved"
    /\ ~ExemptFromValidation(mn_script, mn_action)
    /\ mn_valid' = BoolString(ValidateEnvironment(mn_script, mn_env))
    /\ IF ValidateEnvironment(mn_script, mn_env)
       THEN mn_pc' = "validated" /\ UNCHANGED mn_exit
       ELSE mn_pc' = "exited" /\ mn_exit' = "1"
    /\ UNCHANGED <<mn_script, mn_action, mn_env, mn_study, mn_case, mn_machine,
                   mn_detected, mn_performed, mn_created, mn_launched>>
    /\ UNCHANGED nonMainVars

\* The action's method runs: it may create directories or launch
\* subprocesses.  regtest returns 0, sweeps 0 if success else 1.
MainAct ==
    /\ mn_pc = "validated"
    /\ mn_performed' = Method(mn_script, mn_action)
    /\ IF Method(mn_script, mn_action) \in CreatingMethods
       THEN mn_created' \in BOOLEAN
       ELSE UNCHANGED mn_created
    /\ IF Method(mn_script, mn_action) \in LaunchingMethods
       THEN mn_launched' \in BOOLEAN
       ELSE UNCHANGED mn_launched
    /\ mn_pc' = "exited"
    /\ mn_exit' \in (IF mn_script = Regtest THEN {"0"} ELSE {"0", "1"})
    /\ UNCHANGED <<mn_script, mn_action, mn_env, mn_study, mn_case, mn_machine,
                   mn_detected, mn_valid>>
    /\ UNCHANGED nonMainVars

NextMain ==
    \/ MainInfo
    \/ MainResolve
    \/ MainPlotExempt
    \/ MainValidate
    \/ MainAct

SpecMain == InitMain /\ [][NextMain]_vars

(***************************************************************************)
(* sweeps.py: properties of run_sweeps.                                     *)
(***************************************************************************)
\* The subprocesses launched by this invocation and not yet waited for.
Outstanding == {d \in Dirs : procs[d] \in {"running", "exited"}}

\* The batch (0-based) of the job at position j of jobs_to_run.
BatchOf(j) == (j - 1) \div max_parallel

\* The claim's completion test, stated on a log: it exists, is readable and
\* non-empty, and its last line contains the sentinel token.
SentinelInLog(l) ==
    /\ l.st = "file"
    /\ l.lines # <<>>
    /\ "finalized" \in l.lines[Len(l.lines)]

\* C1: in non-batch mode the number of subprocesses launched and not yet waited
\* for never exceeds max_parallel.
C1_OutstandingAtMostMaxParallel ==
    ~batch_mode => Cardinality(Outstanding) <= max_parallel

\* C1 witness: a full batch of the largest max_parallel is outstanding while
\* further jobs are pending.
C1_Witness ==
    /\ ~batch_mode
    /\ max_parallel = MaxParallel
    /\ Cardinality(Outstanding) = max_parallel
    /\ idx <= Len(jobs_to_run)

\* C2: jobs run in batches: a job that has been started belongs to a batch all
\* of whose predecessors' jobs have been waited for.
C2_BatchesDoNotOverlap ==
    ~batch_mode =>
        \A i, j \in 1..Len(jobs_to_run) :
            (BatchOf(i) < BatchOf(j) /\ procs[jobs_to_run[j]] # "none")
                => procs[jobs_to_run[i]] = "reaped"

\* C2 witness: a job of a second batch is running after a full first batch of
\* more than one job.
C2_Witness ==
    /\ ~batch_mode
    /\ max_parallel > 1
    /\ \E j \in 1..Len(jobs_to_run) :
           BatchOf(j) >= 1 /\ procs[jobs_to_run[j]] = "running"

\* C3: after the scan a run directory is flagged already done exactly when its
\* log exists, is readable, is non-empty and ends with a line containing the
\* sentinel, and such a directory is not launched; and no invocation ever
\* launches a run directory whose log on disk satisfies that test.
C3_DoneIffSentinelAndNeverRelaunched ==
    /\ [](pc # "start" =>
            \A d \in SeqToSet(run_dirs) :
                /\ d \in already_done <=> SentinelInLog(scan_fs[d].log)
                /\ d \in already_done => procs[d] = "none")
    /\ [][\A d \in Dirs :
            SentinelInLog(fs[d].log) => ~(procs[d] = "none" /\ procs'[d] = "running")]_vars

\* C3 witness: an invocation that skipped a completed run directory and ran
\* another one, whose log ends without the sentinel, has returned.
C3_Witness ==
    /\ pc = "returned"
    /\ already_done # {}
    /\ \E d \in Dirs \ already_done :
           procs[d] = "reaped" /\ ~SentinelInLog(fs[d].log)
    /\ \E d \in SeqToSet(run_dirs) \ already_done :
           scan_fs[d].log.st = "file" /\ AnyLineFinalized(scan_fs[d].log.lines)

\* C4: in batch mode every pending run has been submitted to the batch scheduler
\* when run_sweeps returns True.
C4_BatchModeSubmitsEveryPendingRun ==
    (pc = "returned" /\ ret = "True" /\ batch_mode)
        => SeqToSet(jobs_to_run) \subseteq submitted

(***************************************************************************)
(* regtest.py: properties of run_baselines / run_tests.                     *)
(***************************************************************************)
\* The subprocesses launched by run_baselines / run_tests that still run.
RtRunning == {c \in TestCases : rt_procs[c] = "running"}

\* C5: in non-batch mode the launched subprocesses never number more than the
\* configured maximum (whatever it is, at most MaxParallel here), and none of
\* them is still running when run_tests / run_baselines has returned.
C5_RegtestBoundedAndBlocking ==
    (rt_pc # "idle" /\ ~rt_batch_mode) =>
        /\ Cardinality(RtRunning) <= MaxParallel
        /\ rt_pc = "returned" => RtRunning = {}

(***************************************************************************)
(* scripts/plot_infections_map.py: properties of the batch of cases.        *)
(***************************************************************************)
\* A run directory that lacks none of the files process_case reads.
HasEveryFile(c, a) ==
    /\ c.isdir
    /\ c.all_steps # {}
    /\ c.us_dat
    /\ c.multi \/ StepsToPlot(c, a) \subseteq c.plain

\* C6: when several cases are processed in one invocation, a case that lacks
\* US.dat or a cases file never ends the invocation: when the process has ended,
\* every case of the batch was plotted or skipped, and every case that lacks no
\* file was plotted.
C6_MissingFileNeverEndsTheBatch ==
    (pm_pc = "exited" /\ Len(cases_to_plot) > 1) =>
        /\ pm_plotted \cup pm_skipped = 1..Len(cases_to_plot)
        /\ \A i \in 1..Len(cases_to_plot) :
               HasEveryFile(cases_to_plot[i], args_steps) => i \in pm_plotted

(***************************************************************************)
(* regtests/plot_results.py: properties of plot_case, plot_all and main.    *)
(***************************************************************************)
\* The diseases whose pair is in the data lists of the case being plotted.
ListedDiseases ==
    {baseline_data_list[i].disease : i \in 1..Len(baseline_data_list)}

\* C7: a baseline/test pair whose shapes differ is left out of the comparison
\* (it is in no data list and no norms are computed for it) with an error message
\* recorded; the other diseases of the case are still compared when the plot is
\* made, and every case plot_all selected is handled.
C7_ShapeMismatchExcludedOthersProcessed ==
    /\ \A d \in pr_mismatched :
          /\ d \notin ListedDiseases
          /\ d \notin pr_norms
          /\ \E i \in 1..Len(error_messages) :
                error_messages[i] = [disease |-> d, kind |-> "shape_mismatch"]
    /\ (pr_pc = "case_done" /\ pr_result = "ok") => pr_norms = pr_good
    /\ pr_pc = "case_done" => disease_idx = num_diseases + 1
    /\ (pr_pc = "exited" /\ test_cases # <<>>) =>
          success_count + Len(failed_cases) = Len(test_cases)

\* C7 witness: plot_results.py has ended after its first case, which had a
\* mismatched pair, was plotted from its other disease, and the case after it
\* was plotted too.
C7_Witness ==
    /\ pr_pc = "exited"
    /\ 1 \in pr_mismatch_cases
    /\ {1, 2} \subseteq pr_plotted
    /\ success_count + Len(failed_cases) = Len(test_cases)

\* C9: plot_results.py exits with status 1 exactly when no case was plotted,
\* and with status 0 exactly when at least one was.
C9_ExitOneIffNothingPlotted ==
    pr_pc = "exited" =>
        /\ pr_exit \in {"0", "1"}
        /\ pr_exit = "1" <=> pr_plotted = {}

\* C9 witness: one case was plotted, another failed, and the exit status is 0.
C9_Witness ==
    /\ pr_pc = "exited"
    /\ pr_exit = "0"
    /\ pr_plotted # {}
    /\ failed_cases # <<>>

(***************************************************************************)
(* regtests/plot_results.py: properties of compute_norms.                   *)
(***************************************************************************)
\* C10: for every non-empty baseline vector b, compute_norms(b, b) returns 0
\* for all six norms.
C10_IdenticalVectorsGiveZeroNorms ==
    (cn_pc # "call" /\ baseline_values # <<>> /\ test_values = baseline_values) =>
        /\ cn_pc = "returned"
        /\ norms[1].l1_abs = 0
        /\ norms[1].l2_abs = Sqrt(0)
        /\ norms[1].linf_abs = 0
        /\ norms[1].l1_rel.num = 0 /\ norms[1].l1_rel.den > 0
        /\ norms[1].l2_rel.num = 0 /\ norms[1].l2_rel.den > 0
        /\ norms[1].linf_rel.num = 0 /\ norms[1].linf_rel.den > 0

\* C10 witness: compute_norms has returned for a vector with non-zero entries
\* compared with itself.
C10_Witness ==
    /\ cn_pc = "returned"
    /\ Len(baseline_values) > 1
    /\ test_values = baseline_values
    /\ \E i \in 1..Len(baseline_values) : baseline_values[i] # 0

\* The vector holds only zeros.
AllZero(v) == \A i \in 1..Len(v) : v[i] = 0

\* C11: for a non-empty all-zero baseline and a candidate of the same length,
\* compute_norms returns the three relative norms as the defined value 0 and
\* the absolute norms are the norms of the candidate.
C11_ZeroBaselineGivesZeroRelativeNorms ==
    (/\ cn_pc # "call"
     /\ baseline_values # <<>>
     /\ AllZero(baseline_values)
     /\ Len(test_values) = Len(baseline_values)) =>
        /\ cn_pc = "returned"
        /\ norms[1].l1_rel = ZeroQuotient
        /\ norms[1].l2_rel = ZeroQuotient
        /\ norms[1].linf_rel = ZeroQuotient
        /\ norms[1].l1_abs = L1(test_values)
        /\ norms[1].l2_abs = Sqrt(SumOfSquares(test_values))
        /\ norms[1].linf_abs = Linf(test_values)

\* C11 witness: compute_norms has returned for an all-zero baseline of several
\* entries and a candidate that is not zero.
C11_Witness ==
    /\ cn_pc = "returned"
    /\ Len(baseline_values) > 1
    /\ AllZero(baseline_values)
    /\ Len(test_values) = Len(baseline_values)
    /\ ~AllZero(test_values)

\* C12: compute_norms on vectors of different lengths, a length of 1 included,
\* fails and returns no norms.
C12_DifferentLengthsRaise ==
    (cn_pc # "call" /\ Len(baseline_values) # Len(test_values)) =>
        /\ cn_pc = "raised"
        /\ norms = <<>>

(***************************************************************************)
(* analyze_sensitivity.py: properties of main and print_metrics_table.      *)
(***************************************************************************)
\* C8: a malformed realization file aborts at most the sweep case it belongs
\* to: when the script ends, no exception has ended it and the table row of
\* every disease and sweep case other than the malformed ones was printed.
C8_MalformedRunAbortsOnlyItsCase ==
    (sa_pc = "exited" /\ ens_dirs # {} /\ sa_raised # "load_mean_std") =>
        /\ sa_raised = "none"
        /\ sa_exit = "0"
        /\ \A sw \in 1..NumSweeps, d \in 1..NumSweepDiseases, c \in SweepCases :
              <<sw, c>> \notin sa_malformed => <<sw, d, c>> \in sa_reported

(***************************************************************************)
(* analyze_sensitivity.py: properties of load_ensemble and extract_metrics. *)
(***************************************************************************)
\* All entries of the curve are equal.
IsConstant(curve) == \A i, j \in 1..Len(curve) : curve[i] = curve[j]

\* The curve is a single non-negative bump with its maximum at row p.
IsBump(curve, p) ==
    /\ p \in 1..Len(curve)
    /\ \A i \in 1..Len(curve) : curve[i] >= 0
    /\ \A i \in 1..(Len(curve) - 1) :
          IF i < p THEN curve[i] < curve[i + 1] ELSE curve[i] > curve[i + 1]

\* C13: when all realizations of the stack have the same curve, constant over
\* the days, every realization has wave count 1 and n_waves_mean is 1.
C13_ConstantCurvesHaveOneWave ==
    (/\ em_pc = "extracted"
     /\ \A r \in 1..Len(stacked) :
           IsConstant(stacked[r].infected) /\ stacked[r].infected = stacked[1].infected) =>
        /\ \A r \in 1..Len(stacked) : n_waves[r] = 1
        /\ em_metrics[1].n_waves_mean = [sum |-> Len(stacked), n |-> Len(stacked)]

\* C13 witness: metrics were extracted from several realizations of one
\* constant positive curve that is long enough to be smoothed.
C13_Witness ==
    /\ em_pc = "extracted"
    /\ Len(stacked) > 1
    /\ Len(days) > Window
    /\ \A r \in 1..Len(stacked) :
          /\ IsConstant(stacked[r].infected)
          /\ stacked[r].infected[1] > 0

\* C14: the wave count of every realization is at least 1; a realization with
\* zero infected on all days has peak magnitude 0 and wave count 1.
C14_WaveCountAtLeastOne ==
    em_pc = "extracted" =>
        \A r \in 1..Len(stacked) :
            /\ n_waves[r] >= 1
            /\ (\A i \in 1..Len(days) : stacked[r].infected[i] = 0) =>
                  (peak_mags[r] = 0 /\ n_waves[r] = 1)

\* C14 witness: metrics were extracted from a stack with an all-zero
\* realization of more than one day.
C14_Witness ==
    /\ em_pc = "extracted"
    /\ Len(days) > 1
    /\ \E r \in 1..Len(stacked) : \A i \in 1..Len(days) : stacked[r].infected[i] = 0

\* C15: the smoothing is skipped only for curves shorter than the window; for
\* every curve of at least Window days the peaks are counted on the smoothed
\* curve.
C15_SmoothedFromWindowLengthOn ==
    em_pc = "extracted" =>
        \A r \in 1..Len(stacked) :
            n_waves[r] =
                WaveFloor(CountPeaks(IF Len(stacked[r].infected) >= Window
                                     THEN ConvolveSame(stacked[r].infected)
                                     ELSE stacked[r].infected))

\* C16: load_ensemble cuts every realization to the rows of the shortest, so
\* the stack has one row count; cutting the stack again changes nothing and
\* extract_metrics gives the same metrics on it.
C16_TruncationIdempotent ==
    em_pc # "load" =>
        /\ \A r \in 1..Len(stacked) :
              /\ Len(stacked[r].infected) = MinLen(em_all_data)
              /\ stacked[r] = FirstRows(em_all_data[r], MinLen(em_all_data))
        /\ Len(days) = MinLen(em_all_data)
        /\ \A r \in 1..Len(stacked) : FirstRows(stacked[r], MinLen(stacked)) = stacked[r]
        /\ em_pc = "extracted" =>
              ExtractMetrics(FirstRows(stacked[1], MinLen(stacked)).day,
                             [r \in 1..Len(stacked) |->
                                 FirstRows(stacked[r], MinLen(stacked))]) = em_metrics[1]

\* C16 witness: metrics were extracted from an ensemble whose realizations had
\* different row counts.
C16_Witness ==
    /\ em_pc = "extracted"
    /\ \E r \in 1..Len(em_all_data) :
          Len(em_all_data[r].infected) > MinLen(em_all_data)

\* C18: when every realization's curve is a single bump with its maximum at
\* row p, every realization has peak day days[p], peak magnitude the maximum
\* of its curve and wave count 1.
C18_SingleBumpMetrics ==
    em_pc = "extracted" =>
        \A p \in 1..Len(days) :
            (\A r \in 1..Len(stacked) : IsBump(stacked[r].infected, p)) =>
                /\ \A r \in 1..Len(stacked) :
                      /\ peak_days[r] = days[p]
                      /\ peak_mags[r] = stacked[r].infected[p]
                      /\ n_waves[r] = 1
                /\ em_metrics[1].peak_day_mean =
                      [sum |-> Len(stacked) * days[p], n |-> Len(stacked)]
                /\ em_metrics[1].n_waves_mean =
                      [sum |-> Len(stacked), n |-> Len(stacked)]

\* C18 witness: metrics were extracted from several bumps of different heights
\* with the maximum at an interior row, on curves long enough to be smoothed.
C18_Witness ==
    /\ em_pc = "extracted"
    /\ Len(stacked) > 1
    /\ Len(days) > Window
    /\ \E p \in 2..(Len(days) - 1) :
          \A r \in 1..Len(stacked) : IsBump(stacked[r].infected, p)
    /\ peak_mags[1] # peak_mags[2]

\* C19: the callers of extract_metrics handle the single-realization case: no
\* table row is printed with a standard deviation that is undefined.
C19_NoUndefinedDeviationReported ==
    ~sa_nan_std

(***************************************************************************)
(* plot_sweeps.py: properties of parse_dirname.                             *)
(***************************************************************************)
\* The number a string of digits writes, read from its first digit on.
RECURSIVE Decimal(_, _)
Decimal(ds, acc) ==
    IF ds = <<>> THEN acc ELSE Decimal(Tail(ds), 10 * acc + DigitValue(Head(ds)))

\* Token j is the first of the name whose abbreviation is a and that has at least
\* n digits.
FirstToken(j, a, n) ==
    /\ j \in 1..Len(pd_tokens)
    /\ pd_tokens[j].abbrev = a
    /\ Len(pd_tokens[j].digits) >= n
    /\ \A i \in 1..(j - 1) :
          ~(pd_tokens[i].abbrev = a /\ Len(pd_tokens[i].digits) >= n)

\* C17: 'mwprop' followed by three digits ddd gives med_workers_proportion
\* ddd / 100, 'nppd' followed by digits gives that integer, and each 'xmit...'
\* abbreviation followed by three digits ddd gives the rate ddd / 1000.
C17_TokensParsedWithFixedScale ==
    pd_pc # "call" =>
        \A j \in 1..Len(pd_tokens) :
            /\ FirstToken(j, "mwprop", 3) =>
                  /\ pd_pc = "returned"
                  /\ "med_workers_proportion" \in DOMAIN pd_params
                  /\ pd_params["med_workers_proportion"] =
                        [num |-> Decimal(SubSeq(pd_tokens[j].digits, 1, 3), 0),
                         den |-> 100]
            /\ FirstToken(j, "nppd", 1) =>
                  /\ pd_pc = "returned"
                  /\ "num_patients_per_doctor" \in DOMAIN pd_params
                  /\ pd_params["num_patients_per_doctor"] =
                        [num |-> Decimal(pd_tokens[j].digits, 0), den |-> 1]
            /\ \A t \in XmitTypes :
                  FirstToken(j, t, 3) =>
                      /\ pd_pc = "returned"
                      /\ XmitKey(t) \in DOMAIN pd_params
                      /\ pd_params[XmitKey(t)] =
                            [num |-> Decimal(SubSeq(pd_tokens[j].digits, 1, 3), 0),
                             den |-> 1000]

\* C17 witness: parse_dirname has returned for a name with "mwprop055" and
\* an 'xmit...' token.
C17_Witness ==
    /\ pd_pc = "returned"
    /\ Len(pd_tokens) = 2
    /\ pd_tokens[1].abbrev = "mwprop"
    /\ pd_tokens[1].digits = <<"0", "5", "5">>
    /\ pd_tokens[2].abbrev \in XmitTypes
    /\ pd_params["med_workers_proportion"] = [num |-> 55, den |-> 100]

(***************************************************************************)
(* sweeps.py: termination of run_sweeps.                                    *)
(***************************************************************************)
\* C20: if every launched subprocess ends, run_sweeps run directly returns
\* True once it has entered the launch loop; when it has returned, every
\* subprocess it launched has been waited for and completed is the number of
\* jobs to run, whatever max_parallel is.
C20_RunSweepsReturnsAfterWaitingForAll ==
    /\ []((pc = "returned" /\ ret = "True" /\ ~batch_mode) =>
            /\ \A d \in Dirs : procs[d] \in {"none", "reaped"}
            /\ \A d \in SeqToSet(jobs_to_run) : procs[d] = "reaped"
            /\ completed = Len(jobs_to_run))
    /\ ((pc = "loop" /\ ~batch_mode) ~> (pc = "returned" /\ ret = "True"))

\* C20 witness: run_sweeps has returned True after three jobs run two at a
\* time.
C20_Witness ==
    /\ pc = "returned"
    /\ ret = "True"
    /\ ~batch_mode
    /\ max_parallel = 2
    /\ Len(jobs_to_run) = 3
    /\ completed = 3

(***************************************************************************)
(* sweeps.py: properties of create_runs and of the directory names.         *)
(***************************************************************************)
\* What parse_dirname reads from the name of params holds, for every float and
\* integer parameter, the value that was formatted.
RoundTrips(params) ==
    LET parsed == ParseDirname(FormatDirname(params, FALSE))
    IN \A i \in 1..Len(params) :
          LET key == params[i].key
              value == params[i].value
          IN value.type # "bool" =>
                /\ key \in DOMAIN parsed
                /\ IF value.type = "float"
                   THEN parsed[key].num * 1000 = value.v * parsed[key].den
                   ELSE parsed[key].num = value.v * parsed[key].den

\* C21: parse_dirname applied to the name _format_dirname gives a parameter
\* combination returns the values that were formatted.
C21_FormattedNamesParseBack ==
    \A i \in 1..Len(combinations) : RoundTrips(combinations[i])

\* the run directories of the parameter combinations
CombinationDirs == cr_dirs \ {BaselineName}

\* C22: create_runs that began with no run directory and returned True has
\* skipped nothing and created one directory per parameter combination.
C22_OneDirectoryPerCombination ==
    (cr_pc = "returned" /\ cr_ret = "True" /\ cr_fresh) =>
        /\ skipped_count = 0
        /\ created_count = CountCombinations(study_config.parameters)
        /\ Cardinality(CombinationDirs) = CountCombinations(study_config.parameters)

\* C23: when create_runs has returned True, after whatever invocations came
\* before it, every run directory that exists holds its run script.
C23_EveryRunDirectoryHasItsScript ==
    (cr_pc = "returned" /\ cr_ret = "True") => cr_dirs \subseteq cr_scripts

(***************************************************************************)
(* sweeps.py: properties of check_status and of the glob pattern.           *)
(***************************************************************************)
\* C24: the run directories check_status has counted for a machine are the
\* ones create_runs made for that machine.
C24_OnlyDirectoriesOfTheMachine ==
    (cs_pc = "returned" /\ cs_ret = "True") =>
        /\ \A i \in 1..Len(cs_run_dirs) : cs_run_dirs[i].machine = cs_machine
        /\ cs_total = Cardinality({d \in cs_created : d.machine = cs_machine})

\* the sum of the four counters
CountedSoFar == cs_completed + cs_running + cs_not_started + cs_failed

\* C29: every step of the loop of check_status raises exactly one counter, the
\* one of the state the log is in: completed for a last line with the sentinel,
\* running for any other readable log, not started for no log, failed for an
\* unreadable one; the four counters add up to the directories looked at, and
\* at the return to the total reported.
C29_EveryDirectoryInOneClass ==
    /\ [][cs_idx' = cs_idx + 1 =>
            /\ CountedSoFar' = CountedSoFar + 1
            /\ cs_completed' = cs_completed + 1 <=>
                   (cs_log'.st = "file" /\ LastLineFinalized(cs_log'.lines))
            /\ cs_running' = cs_running + 1 <=>
                   (cs_log'.st = "file" /\ ~LastLineFinalized(cs_log'.lines))
            /\ cs_not_started' = cs_not_started + 1 <=> cs_log'.st = "absent"
            /\ cs_failed' = cs_failed + 1 <=> cs_log'.st = "unreadable"]_vars
    /\ [](cs_pc = "loop" => CountedSoFar = cs_idx - 1)
    /\ []((cs_pc = "returned" /\ cs_ret = "True") =>
            /\ cs_total = Len(cs_run_dirs)
            /\ CountedSoFar = cs_total)

\* C29 witness: check_status has reported two run directories, one completed
\* and one with an unreadable log.
C29_Witness ==
    /\ cs_pc = "returned"
    /\ cs_ret = "True"
    /\ cs_total = 2
    /\ cs_completed = 1
    /\ cs_failed = 1

(***************************************************************************)
(* sweeps.py: properties of run_sweeps invoked while another runs.          *)
(***************************************************************************)
\* the invocations whose subprocess is running in run directory d, its log begun
RunningIn(d) == {i \in Invocations : cc_procs[i][d] = "running"}

\* C25: an invocation does not launch a run directory in which it found a
\* subprocess running (the log there, the sentinel not yet written); at most
\* one simulator subprocess runs in a run directory at any time; an invocation
\* launches a run directory at most once.
C25_OneSubprocessPerRunDirectory ==
    /\ \A i \in Invocations : \A d \in cc_seen_running[i] : cc_launched[i][d] = 0
    /\ \A d \in SharedDirs : Cardinality(RunningIn(d)) <= 1
    /\ \A i \in Invocations : \A d \in SharedDirs : cc_launched[i][d] <= 1

(***************************************************************************)
(* regtests/plot_results.py: the disease names of create_comparison_plot.   *)
(***************************************************************************)
\* C26: in a case of several diseases, every pair create_comparison_plot was
\* given is named by the disease whose output file it was loaded from.
C26_PairsNamedByTheirDisease ==
    (pr_pc = "case_done" /\ pr_result = "ok" /\ num_diseases > 1) =>
        /\ Len(pr_labels) = Len(baseline_data_list)
        /\ \A i \in 1..Len(pr_labels) : pr_labels[i] = baseline_data_list[i].disease

(***************************************************************************)
(* regtest.py: properties of compare_results.                               *)
(***************************************************************************)
\* C27: when compare_results has printed its results line, passed, failed and
\* skipped add up to the number of baseline directories of the machine.
C27_TallyCoversEveryBaseline ==
    (cmp_pc = "done" /\ cmp_exit = "returned") =>
        cmp_passed + cmp_failed + cmp_skipped = Len(baseline_dirs)

(***************************************************************************)
(* scripts/plot_infections_map.py: properties of the choice for -c.         *)
(***************************************************************************)
\* C28: a run directory chosen for a case that was asked for by its case name
\* is of the platform given with -P or detected.
C28_ChosenDirectoryIsOfThePlatform ==
    (sel_pc = "selected" /\ case_spec \in CaseNames) =>
        \A i \in 1..Len(sel_cases_to_plot) : sel_cases_to_plot[i].dp = sel_platform

(***************************************************************************)
(* regtest.py and sweeps.py: properties of main.                           *)
(***************************************************************************)
\* C30: a method of either orchestrator that creates, runs, compares,
\* reports status or plots has been called only after validate_environment
\* returned True, the plot action of regtest excepted; and once
\* validate_environment has returned False the process has exited with
\* code 1, has called no method, has created no directory and has launched
\* no subprocess.
C30_ActionsOnlyAfterValidation ==
    /\ (/\ mn_performed \notin {"none", "list"}
        /\ ~(mn_script = "regtest" /\ mn_action = "plot"))
          => mn_valid = "True"
    /\ mn_valid = "False" =>
          /\ mn_pc = "exited"
          /\ mn_exit = "1"
          /\ mn_performed = "none"
          /\ ~mn_created
          /\ ~mn_launched

\* A sweeps create action made directories after a successful validation.
C30_Witness ==
    /\ mn_script = "sweeps"
    /\ mn_valid = "True"
    /\ mn_performed = "create_runs"
    /\ mn_created
    /\ mn_exit = "0"

====
